---- MODULE Spec2Model ----
(***************************************************************************)
(* A model of the range-filters crate: the X-Fast trie (x_fast_trie.rs),   *)
(* the Y-Fast trie built on it (y_fast_trie.rs), the BST group             *)
(* (binary_search_tree.rs), the infix store (infix_store.rs, bitmap.rs)    *)
(* and the Diva builder (diva.rs).                                         *)
(*                                                                         *)
(* Conventions.  Option<T> is a sequence: None is << >>, Some(x) is <<x>>. *)
(* A representative (Arc<RwLock<RepNode>>) is named by <<key, n>>, n being *)
(* the number of its allocation among the representatives of that key that *)
(* are still referenced; `reps` maps the live ones to their fields.  A     *)
(* Weak handle is the name alone: it upgrades iff the name is in `reps`.   *)
(* Keys are u64 in the source; the model draws them below 2^31, where a    *)
(* right shift by 31 or more is 0.                                         *)
(***************************************************************************)
EXTENDS Integers, Sequences, FiniteSets, TLC

VARIABLES trie, inserted, calls, keys, bst, group_keys, diva, input_infixes, built_store, rank_call, grade_call, pc

vars == <<trie, inserted, calls, keys, bst, group_keys, diva, input_infixes, built_store, rank_call, grade_call, pc>>

(***************************************************************************)
(* Bounds of the model.                                                    *)
(***************************************************************************)
\* key width of the tries the X-Fast specification builds
MaxLevels == 3
\* number of insert calls the X-Fast specification makes
MaxInserts == 4
\* largest key, length of the key array and number of insert calls of the BST
\* group specification
MaxBstKey == 3
MaxBstLen == 3
MaxBstInserts == 2
\* key width and largest key of the Y-Fast specification
YLevels == 4
MaxYKey == 11
\* largest key and largest target_size of the Diva specification
MaxDKey == 5
MaxTargetSize == 3
\* infix store: the longest list of runs, the longest run, the longest list
\* enumerated in full
MaxInfixes == 22
MaxRunLen == 2
MaxShortList == 2
\* set bits of a bitmap handed to rank_cached
MaxBitmapOnes == 2
\* element counts given to choose_size_grade one by one from 0
MaxSmallCount == 8

(***************************************************************************)
(* Option and integer helpers.                                             *)
(***************************************************************************)
None == << >>

Some(x) == <<x>>

IsSome(o) == o # << >>

Unwrap(o) == o[1]

Shr(x, n) == IF n >= 31 THEN 0 ELSE x \div (2 ^ n)

Max2(a, b) == IF a >= b THEN a ELSE b

Min2(a, b) == IF a <= b THEN a ELSE b

SetMax(S) == CHOOSE x \in S : \A y \in S : y <= x

SetMin(S) == CHOOSE x \in S : \A y \in S : x <= y

(***************************************************************************)
(* X-Fast trie.                                                            *)
(***************************************************************************)
ROOT_KEY == 67

\* XFastValue::default()
DefaultValue == [left_child |-> None, right_child |-> None, min_rep |-> None, max_rep |-> None]

\* the XFastValue insert creates for a new prefix, and the clone a child handle owns
NewValue(rep) == [left_child |-> None, right_child |-> None, min_rep |-> Some(rep), max_rep |-> Some(rep)]

\* XFastTrie::new
XFastNew(no_levels) ==
  [ levels    |-> [l \in 0..no_levels |-> IF l = 0 THEN (ROOT_KEY :> DefaultValue) ELSE << >>],
    reps      |-> << >>,
    head_rep  |-> None,
    tail_rep  |-> None,
    no_levels |-> no_levels ]

\* Weak::upgrade on an Option<Weak<..>> field
Upgrade(t, weak) == IF IsSome(weak) /\ Unwrap(weak) \in DOMAIN t.reps THEN weak ELSE None

RepKey(id) == id[1]

RECURSIVE FlplSearch(_, _, _, _)
FlplSearch(t, key, low, high) ==
  IF low < high
  THEN LET mid    == (low + high + 1) \div 2
           prefix == Shr(key, t.no_levels - mid)
       IN IF prefix \in DOMAIN t.levels[mid]
          THEN FlplSearch(t, key, mid, high)
          ELSE FlplSearch(t, key, low, mid - 1)
  ELSE low

\* the number of iterations of the while loop of find_longest_prefix_length
RECURSIVE FlplIterations(_, _, _, _)
FlplIterations(t, key, low, high) ==
  IF low < high
  THEN LET mid    == (low + high + 1) \div 2
           prefix == Shr(key, t.no_levels - mid)
       IN IF prefix \in DOMAIN t.levels[mid]
          THEN 1 + FlplIterations(t, key, mid, high)
          ELSE 1 + FlplIterations(t, key, low, mid - 1)
  ELSE 0

\* find_longest_prefix_length with the search starting one level short
find_longest_prefix_length_one_short(t, key) ==
  IF DOMAIN t.levels[1] = {} THEN 0 ELSE FlplSearch(t, key, 0, t.no_levels - 1)

find_longest_prefix_length(t, key) ==
  IF DOMAIN t.levels[1] = {} THEN 0 ELSE FlplSearch(t, key, 0, t.no_levels)

\* PredAtLevel without the step to min_rep.left
PredAtLevelNoLeft(t, key, lpl) ==
  LET prefix == Shr(key, t.no_levels - lpl)
  IN IF prefix \notin DOMAIN t.levels[lpl] THEN None
     ELSE LET v == t.levels[lpl][prefix]
          IN IF IsSome(v.max_rep) /\ RepKey(Unwrap(v.max_rep)) <= key THEN v.max_rep
             ELSE IF IsSome(v.min_rep)
                  THEN IF RepKey(Unwrap(v.min_rep)) <= key THEN v.min_rep
                       ELSE None
                  ELSE None

\* the part of predecessor after the root-level special cases
PredAtLevel(t, key, lpl) ==
  LET prefix == Shr(key, t.no_levels - lpl)
  IN IF prefix \notin DOMAIN t.levels[lpl] THEN None
     ELSE LET v == t.levels[lpl][prefix]
          IN IF IsSome(v.max_rep) /\ RepKey(Unwrap(v.max_rep)) <= key THEN v.max_rep
             ELSE IF IsSome(v.min_rep)
                  THEN IF RepKey(Unwrap(v.min_rep)) <= key THEN v.min_rep
                       ELSE Upgrade(t, t.reps[Unwrap(v.min_rep)].left)
                  ELSE None

predecessor(t, key) ==
  IF DOMAIN t.levels[1] = {} THEN None
  ELSE LET lpl == find_longest_prefix_length(t, key)
           top == Shr(key, t.no_levels - 1)
       IN IF lpl = 0 /\ top = 1 /\ 0 \in DOMAIN t.levels[1] THEN t.levels[1][0].max_rep
          ELSE IF lpl = 0 /\ top = 0 THEN None
          ELSE PredAtLevel(t, key, lpl)

\* SuccAtLevel without the step to max_rep.right
SuccAtLevelNoRight(t, key, lpl) ==
  LET prefix == Shr(key, t.no_levels - lpl)
  IN IF prefix \notin DOMAIN t.levels[lpl] THEN None
     ELSE LET v == t.levels[lpl][prefix]
          IN IF IsSome(v.min_rep) /\ RepKey(Unwrap(v.min_rep)) >= key THEN v.min_rep
             ELSE IF IsSome(v.max_rep)
                  THEN IF RepKey(Unwrap(v.max_rep)) >= key THEN v.max_rep
                       ELSE None
                  ELSE None

\* the part of successor after the root-level special cases
SuccAtLevel(t, key, lpl) ==
  LET prefix == Shr(key, t.no_levels - lpl)
  IN IF prefix \notin DOMAIN t.levels[lpl] THEN None
     ELSE LET v == t.levels[lpl][prefix]
          IN IF IsSome(v.min_rep) /\ RepKey(Unwrap(v.min_rep)) >= key THEN v.min_rep
             ELSE IF IsSome(v.max_rep)
                  THEN IF RepKey(Unwrap(v.max_rep)) >= key THEN v.max_rep
                       ELSE Upgrade(t, t.reps[Unwrap(v.max_rep)].right)
                  ELSE None

successor(t, key) ==
  IF DOMAIN t.levels[1] = {} THEN None
  ELSE LET lpl == find_longest_prefix_length(t, key)
           top == Shr(key, t.no_levels - 1)
       IN IF lpl = 0 /\ top = 1 THEN None
          ELSE IF lpl = 0 /\ top = 0 /\ 1 \in DOMAIN t.levels[1] THEN t.levels[1][1].min_rep
          ELSE SuccAtLevel(t, key, lpl)

\* lookup reading the min_rep of the level above the leaves
lookupParentLevel(t, key) ==
  IF Shr(key, 1) \in DOMAIN t.levels[t.no_levels - 1]
  THEN t.levels[t.no_levels - 1][Shr(key, 1)].min_rep
  ELSE None

lookup(t, key) ==
  IF key \in DOMAIN t.levels[t.no_levels] THEN t.levels[t.no_levels][key].min_rep ELSE None

\* the assert_eq!(min_rep_guard.key, key) of lookup
LookupAssertOk(t, key) ==
  (key \in DOMAIN t.levels[t.no_levels] /\ IsSome(t.levels[t.no_levels][key].min_rep))
     => RepKey(Unwrap(t.levels[t.no_levels][key].min_rep)) = key

\* a name for the Arc::new(RwLock::new(RepNode {..})) of insert: one no live
\* representative and no Weak handle still uses
WeakTargets(t) ==
  UNION {{Unwrap(t.reps[r].left) : r \in {x \in DOMAIN t.reps : IsSome(t.reps[x].left)}},
         {Unwrap(t.reps[r].right) : r \in {x \in DOMAIN t.reps : IsSome(t.reps[x].right)}}}

FreshRep(t, key) ==
  LET used == DOMAIN t.reps \cup WeakTargets(t)
      n    == CHOOSE i \in 0..Cardinality(used) :
                 /\ <<key, i>> \notin used
                 /\ \A j \in 0..(i - 1) : <<key, j>> \in used
  IN <<key, n>>

\* BinarySearchTreeGroup::default()
BstDefault == [root |-> None]

\* the child handle of a prefix node at level l for the prefix of key at l + 1
WithChild(v, key, no_levels, l, rep) ==
  LET bit == IF l = 0 THEN Shr(key, no_levels - 1) ELSE Shr(key, no_levels - (l + 1)) % 2
  IN IF bit = 0
     THEN [v EXCEPT !.left_child = Some(NewValue(rep))]
     ELSE [v EXCEPT !.right_child = Some(NewValue(rep))]

\* insert step 3: the loop over prefix_length in first .. no_levels.  Pass
\* prefix_length puts a new value at its level and then sets the child handle of
\* the key's prefix node one level up, if there is one (ROOT_KEY at level 0); so a
\* level in first .. no_levels - 1 ends with the new value and its child handle,
\* level no_levels with the new value, and level first - 1 with the child handle.
CreatePrefixes(levels, no_levels, key, rep, first) ==
  [l \in DOMAIN levels |->
     LET prefix == IF l = 0 THEN ROOT_KEY ELSE Shr(key, no_levels - l)
     IN IF l >= first /\ l < no_levels
        THEN (prefix :> WithChild(NewValue(rep), key, no_levels, l, rep)) @@ levels[l]
        ELSE IF l >= first /\ l = no_levels
        THEN (prefix :> NewValue(rep)) @@ levels[l]
        ELSE IF l = first - 1 /\ l < no_levels /\ prefix \in DOMAIN levels[l]
        THEN [levels[l] EXCEPT ![prefix] = WithChild(@, key, no_levels, l, rep)]
        ELSE levels[l]]

\* step 4 that propagates the minimum only
UpdateMinOnly(v, rep) ==
  LET should_update_min == IsSome(v.min_rep) /\ RepKey(rep) < RepKey(Unwrap(v.min_rep))
  IN [v EXCEPT !.min_rep = IF should_update_min THEN Some(rep) ELSE @]

\* insert step 4, at one prefix node: strict < for min, strict > for max
UpdateMinMaxValue(v, rep) ==
  LET should_update_min == IsSome(v.min_rep) /\ RepKey(rep) < RepKey(Unwrap(v.min_rep))
      should_update_max == IsSome(v.max_rep) /\ RepKey(rep) > RepKey(Unwrap(v.max_rep))
  IN [v EXCEPT !.min_rep = IF should_update_min THEN Some(rep) ELSE @,
               !.max_rep = IF should_update_max THEN Some(rep) ELSE @]

\* insert step 4: levels 1 .. no_levels - 1, when the key shared a prefix
UpdateMinMax(levels, no_levels, key, rep, lpl) ==
  IF lpl > 0
  THEN [l \in DOMAIN levels |->
          IF l >= 1 /\ l <= no_levels - 1
          THEN LET prefix == Shr(key, no_levels - l)
               IN [levels[l] EXCEPT ![prefix] = UpdateMinMaxValue(@, rep)]
          ELSE levels[l]]
  ELSE levels

\* insert step 5: the list links of predecessor, successor and the new node
LinkReps(reps, rep, pred, succ) ==
  LET r1 == IF IsSome(pred) THEN [reps EXCEPT ![Unwrap(pred)].right = Some(rep)] ELSE reps
      r2 == IF IsSome(succ) THEN [r1 EXCEPT ![Unwrap(succ)].left = Some(rep)] ELSE r1
  IN (rep :> [key |-> RepKey(rep), left |-> pred, right |-> succ, bst_group |-> Some(BstDefault)]) @@ r2

\* insert step 6
UpdateHead(t, reps, rep) ==
  IF IsSome(t.head_rep)
  THEN IF reps[Unwrap(t.head_rep)].key > RepKey(rep) THEN Some(rep) ELSE t.head_rep
  ELSE Some(rep)

\* step 6 that keeps the tail it has
UpdateTailKeepFirst(t, reps, rep) ==
  IF IsSome(t.tail_rep) THEN t.tail_rep ELSE Some(rep)

UpdateTail(t, reps, rep) ==
  IF IsSome(t.tail_rep)
  THEN IF reps[Unwrap(t.tail_rep)].key < RepKey(rep) THEN Some(rep) ELSE t.tail_rep
  ELSE Some(rep)

\* the representatives an Arc still owns: min_rep / max_rep of every prefix node
\* and of every child handle's clone, head_rep and tail_rep
OptSet(o) == IF IsSome(o) THEN {Unwrap(o)} ELSE {}

ValueOwned(v) ==
  OptSet(v.min_rep) \cup OptSet(v.max_rep)
    \cup (IF IsSome(v.left_child) THEN OptSet(Unwrap(v.left_child).min_rep) \cup OptSet(Unwrap(v.left_child).max_rep) ELSE {})
    \cup (IF IsSome(v.right_child) THEN OptSet(Unwrap(v.right_child).min_rep) \cup OptSet(Unwrap(v.right_child).max_rep) ELSE {})

Owned(levels, head_rep, tail_rep) ==
  UNION {UNION {ValueOwned(levels[l][p]) : p \in DOMAIN levels[l]} : l \in DOMAIN levels}
    \cup OptSet(head_rep) \cup OptSet(tail_rep)

\* the end of insert's scope: a representative nothing owns is freed
DropUnowned(reps, owned) == [r \in (DOMAIN reps \cap owned) |-> reps[r]]

\* XFastTrie::insert
insert(t, key) ==
  LET lpl   == find_longest_prefix_length(t, key)
      pred  == predecessor(t, key)
      succ  == successor(t, key)
      rep   == FreshRep(t, key)
      lv3   == CreatePrefixes(t.levels, t.no_levels, key, rep, lpl + 1)
      lv4   == UpdateMinMax(lv3, t.no_levels, key, rep, lpl)
      reps5 == LinkReps(t.reps, rep, pred, succ)
      head  == UpdateHead(t, reps5, rep)
      tail  == UpdateTail(t, reps5, rep)
  IN [ levels    |-> lv4,
       reps      |-> DropUnowned(reps5, Owned(lv4, head, tail)),
       head_rep  |-> head,
       tail_rep  |-> tail,
       no_levels |-> t.no_levels ]

\* the walk of XFastTrie::len, as the list of keys it visits; fuel bounds the
\* walk so that a cyclic list shows as a walk longer than the live set
RECURSIVE WalkRight(_, _, _)
WalkRight(t, cur, fuel) ==
  IF ~IsSome(cur) \/ fuel = 0 THEN << >>
  ELSE <<t.reps[Unwrap(cur)].key>> \o WalkRight(t, Upgrade(t, t.reps[Unwrap(cur)].right), fuel - 1)

RECURSIVE WalkLeft(_, _, _)
WalkLeft(t, cur, fuel) ==
  IF ~IsSome(cur) \/ fuel = 0 THEN << >>
  ELSE <<t.reps[Unwrap(cur)].key>> \o WalkLeft(t, Upgrade(t, t.reps[Unwrap(cur)].left), fuel - 1)

ForwardWalk(t) == WalkRight(t, t.head_rep, Cardinality(DOMAIN t.reps) + 1)

BackwardWalk(t) == WalkLeft(t, t.tail_rep, Cardinality(DOMAIN t.reps) + 1)

\* XFastTrie::len
len(t) == Len(ForwardWalk(t))

(***************************************************************************)
(* The X-Fast specification: a trie of MaxLevels levels, any insert calls. *)
(***************************************************************************)
XKeys == 0..(2 ^ MaxLevels - 1)

Idle ==
  /\ keys = << >>
  /\ bst = BstDefault
  /\ group_keys = {}
  /\ diva = << >>
  /\ input_infixes = << >>
  /\ built_store = None
  /\ rank_call = << >>
  /\ grade_call = << >>

InitXFast ==
  /\ trie = XFastNew(MaxLevels)
  /\ inserted = {}
  /\ calls = 0
  /\ pc = "xfast"
  /\ Idle

XInsert(k) ==
  /\ pc = "xfast"
  /\ calls < MaxInserts
  /\ trie' = insert(trie, k)
  /\ inserted' = inserted \cup {k}
  /\ calls' = calls + 1
  /\ UNCHANGED <<keys, bst, group_keys, diva, pc, input_infixes, built_store, rank_call, grade_call>>

NextXFast == \E k \in XKeys : XInsert(k)

SpecXFast == InitXFast /\ [][NextXFast]_vars

(***************************************************************************)
(* Reference notions the claims compare the code with.                     *)
(***************************************************************************)
RECURSIVE Ascending(_)
Ascending(S) == IF S = {} THEN << >> ELSE <<SetMin(S)>> \o Ascending(S \ {SetMin(S)})

RECURSIVE Descending(_)
Descending(S) == IF S = {} THEN << >> ELSE <<SetMax(S)>> \o Descending(S \ {SetMax(S)})

\* max{s in S : s <= q} and min{s in S : s >= q}, as Option<Key>
RefPred(S, q) == IF {s \in S : s <= q} = {} THEN None ELSE Some(SetMax({s \in S : s <= q}))

RefSucc(S, q) == IF {s \in S : s >= q} = {} THEN None ELSE Some(SetMin({s \in S : s >= q}))

\* the key of the representative a query returned, as Option<Key>; a handle that
\* names no live representative has no key
KeyOf(t, o) == IF IsSome(o) /\ Unwrap(o) \in DOMAIN t.reps THEN Some(t.reps[Unwrap(o)].key) ELSE None

DistinctInserts == pc = "xfast" /\ calls = Cardinality(inserted)

\* C2: after inserts of pairwise-distinct keys, predecessor(q) returns the live
\* representative of max{s inserted : s <= q} for every q in [0, 2^w), and is
\* absent exactly when no inserted key is <= q.
C2_XFastPredecessorLaw ==
  DistinctInserts =>
    \A q \in XKeys :
      LET p == predecessor(trie, q)
      IN /\ IsSome(p) => Unwrap(p) \in DOMAIN trie.reps
         /\ KeyOf(trie, p) = RefPred(inserted, q)

\* a trie of distinct keys where one query is answered through min_rep.left,
\* one by a max_rep and one is absent
C2_Witness ==
  /\ DistinctInserts
  /\ calls >= 2
  /\ \E q \in XKeys \ inserted :
       LET lpl == find_longest_prefix_length(trie, q)
       IN /\ lpl > 0
          /\ RepKey(Unwrap(trie.levels[lpl][Shr(q, MaxLevels - lpl)].min_rep)) > q
          /\ IsSome(predecessor(trie, q))
  /\ \E q \in XKeys \ inserted : predecessor(trie, q) = None
  /\ \E q \in XKeys \ inserted : IsSome(predecessor(trie, q)) /\ find_longest_prefix_length(trie, q) = 0

\* C3: after inserts of pairwise-distinct keys, successor(q) returns the live
\* representative of min{s inserted : s >= q} for every q in [0, 2^w), and is
\* absent exactly when no inserted key is >= q.
C3_XFastSuccessorLaw ==
  DistinctInserts =>
    \A q \in XKeys :
      LET p == successor(trie, q)
      IN /\ IsSome(p) => Unwrap(p) \in DOMAIN trie.reps
         /\ KeyOf(trie, p) = RefSucc(inserted, q)

C3_Witness ==
  /\ DistinctInserts
  /\ calls >= 2
  /\ \E q \in XKeys \ inserted :
       LET lpl == find_longest_prefix_length(trie, q)
       IN /\ lpl > 0
          /\ RepKey(Unwrap(trie.levels[lpl][Shr(q, MaxLevels - lpl)].max_rep)) < q
          /\ IsSome(successor(trie, q))
  /\ \E q \in XKeys \ inserted : successor(trie, q) = None
  /\ \E q \in XKeys \ inserted : IsSome(successor(trie, q)) /\ find_longest_prefix_length(trie, q) = 0

\* C4: after any insert calls (a key may be inserted again), the walk from
\* head_rep through right links is the inserted set in ascending order, the walk
\* from tail_rep through left links is it in descending order, head_rep is the
\* minimum, tail_rep the maximum, and len() is the size of the set.
C4_XFastListOrder ==
  pc = "xfast" =>
    /\ ForwardWalk(trie) = Ascending(inserted)
    /\ BackwardWalk(trie) = Descending(inserted)
    /\ KeyOf(trie, trie.head_rep) = (IF inserted = {} THEN None ELSE Some(SetMin(inserted)))
    /\ KeyOf(trie, trie.tail_rep) = (IF inserted = {} THEN None ELSE Some(SetMax(inserted)))
    /\ len(trie) = Cardinality(inserted)

\* C5: after inserts of distinct keys, at every level 1..w every prefix node's
\* min_rep is the smallest inserted key with that prefix and its max_rep the
\* largest.
C5_XFastMinMax ==
  DistinctInserts =>
    \A l \in 1..MaxLevels : \A p \in DOMAIN trie.levels[l] :
      LET under == {s \in inserted : Shr(s, MaxLevels - l) = p}
          v     == trie.levels[l][p]
      IN /\ under # {}
         /\ KeyOf(trie, v.min_rep) = Some(SetMin(under))
         /\ KeyOf(trie, v.max_rep) = Some(SetMax(under))

\* a prefix node below the leaves whose min and max differ and were both replaced
\* after the node was created
C5_Witness ==
  /\ DistinctInserts
  /\ \E l \in 1..(MaxLevels - 1) : \E p \in DOMAIN trie.levels[l] :
       LET v == trie.levels[l][p]
       IN /\ Cardinality({s \in inserted : Shr(s, MaxLevels - l) = p}) >= 3
          /\ Unwrap(v.min_rep) # Unwrap(v.max_rep)
          /\ \A c \in {v.left_child, v.right_child} :
               IsSome(c) => Unwrap(c).min_rep \notin {v.min_rep, v.max_rep}

\* C6: after any insert calls, lookup(k) returns a live representative of key k
\* iff k was inserted and is absent otherwise; level w holds one prefix node per
\* inserted key, whose min_rep and max_rep are one representative of that key;
\* and the assertion inside lookup holds.
C6_XFastLookup ==
  pc = "xfast" =>
    /\ \A k \in XKeys :
         /\ IsSome(lookup(trie, k)) <=> k \in inserted
         /\ IsSome(lookup(trie, k)) => Unwrap(lookup(trie, k)) \in DOMAIN trie.reps
         /\ KeyOf(trie, lookup(trie, k)) = (IF k \in inserted THEN Some(k) ELSE None)
         /\ LookupAssertOk(trie, k)
    /\ DOMAIN trie.levels[MaxLevels] = inserted
    /\ \A k \in DOMAIN trie.levels[MaxLevels] :
         LET v == trie.levels[MaxLevels][k]
         IN IsSome(v.min_rep) /\ v.min_rep = v.max_rep /\ RepKey(Unwrap(v.min_rep)) = k

\* a key inserted twice and still looked up, beside keys never inserted
C6_Witness ==
  /\ pc = "xfast"
  /\ calls > Cardinality(inserted)
  /\ Cardinality(inserted) >= 2
  /\ \E k \in XKeys : lookup(trie, k) = None

\* the levels 1..w whose table holds the top-l bits of q
MatchedLevels(t, q) == {l \in 1..t.no_levels : Shr(q, t.no_levels - l) \in DOMAIN t.levels[l]}

\* the longest matched prefix by a scan of the levels from 1 upward
LinearScan(t, q) == IF MatchedLevels(t, q) = {} THEN 0 ELSE SetMax(MatchedLevels(t, q))

\* C20: after any insert calls, for every query q the set of levels 1..w whose
\* table contains the top-l bits of q is downward-closed, and
\* find_longest_prefix_length(q) ends (its loop runs at most w times) and
\* returns the largest such level, 0 when there is none: the binary search
\* agrees with a linear scan.
C20_XFastLongestPrefix ==
  pc = "xfast" =>
    \A q \in XKeys :
      /\ \A l \in MatchedLevels(trie, q) : 1..l \subseteq MatchedLevels(trie, q)
      /\ find_longest_prefix_length(trie, q) = LinearScan(trie, q)
      /\ FlplIterations(trie, q, 0, trie.no_levels) <= trie.no_levels

\* several keys inserted; some query matches no level, some a proper prefix
\* only, some all levels
C20_Witness ==
  /\ pc = "xfast"
  /\ Cardinality(inserted) >= 2
  /\ \E q \in XKeys : find_longest_prefix_length(trie, q) = 0
  /\ \E q \in XKeys : /\ find_longest_prefix_length(trie, q) > 0
                       /\ find_longest_prefix_length(trie, q) < trie.no_levels
  /\ \E q \in XKeys : find_longest_prefix_length(trie, q) = trie.no_levels

\* what a caller can observe of a trie: len(), the two list walks, the keys of
\* head_rep and tail_rep, and the keys lookup, predecessor and successor return
Observers(t) ==
  [ len      |-> len(t),
    forward  |-> ForwardWalk(t),
    backward |-> BackwardWalk(t),
    head     |-> KeyOf(t, t.head_rep),
    tail     |-> KeyOf(t, t.tail_rep),
    lookup   |-> [q \in XKeys |-> KeyOf(t, lookup(t, q))],
    pred     |-> [q \in XKeys |-> KeyOf(t, predecessor(t, q))],
    succ     |-> [q \in XKeys |-> KeyOf(t, successor(t, q))] ]

\* C21: an insert of a key that is already in the trie leaves len(), the
\* forward and backward walks, head_rep, tail_rep and the answers of lookup,
\* predecessor and successor for every query as they were before the call.
C21_XFastReinsertNoop ==
  [][(pc = "xfast" /\ calls' = calls + 1 /\ inserted' = inserted)
       => Observers(trie') = Observers(trie)]_vars

\* the trie after insert of ks[i], ks[i + 1], ... into t
RECURSIVE InsertAll(_, _, _)
InsertAll(t, ks, i) == IF i > Len(ks) THEN t ELSE InsertAll(insert(t, ks[i]), ks, i + 1)

\* the trie made by inserting the inserted keys in ascending order
InsertedAscending == InsertAll(XFastNew(MaxLevels), Ascending(inserted), 1)

\* what the claim compares: the prefixes present at every level 1..w, the keys
\* of min_rep and max_rep of every prefix node, the list walks, head and tail
Shape(t) ==
  [ prefixes |-> [l \in 1..t.no_levels |-> DOMAIN t.levels[l]],
    min_max  |-> [l \in 1..t.no_levels |->
                    [p \in DOMAIN t.levels[l] |->
                       <<KeyOf(t, t.levels[l][p].min_rep), KeyOf(t, t.levels[l][p].max_rep)>>]],
    forward  |-> ForwardWalk(t),
    backward |-> BackwardWalk(t),
    head     |-> KeyOf(t, t.head_rep),
    tail     |-> KeyOf(t, t.tail_rep) ]

\* C26: for any set of distinct keys in [0, 2^w), the trie made by inserting
\* them in any order agrees with the trie made by inserting them in ascending
\* order (hence any two orders agree) on the prefixes present at every level
\* 1..w, on min_rep.key and max_rep.key of every prefix node, on the forward and
\* backward list walks and on head_rep and tail_rep.
C26_XFastOrderIndependence ==
  DistinctInserts => Shape(trie) = Shape(InsertedAscending)

\* three or more distinct keys inserted in an order that left other child
\* handles than the ascending order does, a prefix node with min below max
C26_Witness ==
  /\ DistinctInserts
  /\ calls >= 3
  /\ trie # InsertedAscending
  /\ \E p \in DOMAIN trie.levels[1] :
       RepKey(Unwrap(trie.levels[1][p].min_rep)) < RepKey(Unwrap(trie.levels[1][p].max_rep))
  /\ Cardinality(DOMAIN trie.levels[1]) = 2

(***************************************************************************)
(* Slices: Vec::sort, Vec::dedup.                                          *)
(***************************************************************************)
RECURSIVE InsertSorted(_, _)
InsertSorted(sorted, x) ==
  IF sorted = << >> THEN <<x>>
  ELSE IF x < sorted[1] THEN <<x>> \o sorted
  ELSE <<sorted[1]>> \o InsertSorted(Tail(sorted), x)

\* slice::sort on integers: the ascending permutation of the slice
RECURSIVE Sort(_)
Sort(a) == IF a = << >> THEN << >> ELSE InsertSorted(Sort(Tail(a)), a[1])

\* Vec::dedup: drops every element equal to the one before it
RECURSIVE Dedup(_)
Dedup(a) ==
  IF Len(a) <= 1 THEN a
  ELSE IF a[1] = a[2] THEN Dedup(Tail(a))
  ELSE <<a[1]>> \o Dedup(Tail(a))

Elems(a) == {a[i] : i \in 1..Len(a)}

\* the slices over S of at most n elements
RECURSIVE SeqsUpTo(_, _)
SeqsUpTo(S, n) ==
  IF n = 0 THEN {<< >>}
  ELSE LET shorter == SeqsUpTo(S, n - 1)
       IN shorter \cup {Append(a, x) : a \in {b \in shorter : Len(b) = n - 1}, x \in S}

(***************************************************************************)
(* BST group.  Option<Box<TreeNode>> is << >> or <<node>>.                 *)
(***************************************************************************)
TreeNode(key, left, right) == [key |-> key, left |-> left, right |-> right, infix_store |-> None]

\* keys is the sorted Vec, indexed from 0 in the source and from 1 here
RECURSIVE top_down_bst_insertion(_, _, _)
top_down_bst_insertion(ks, start, end) ==
  IF start > end THEN None
  ELSE LET mid == (start + end) \div 2
       IN Some(TreeNode(ks[mid + 1],
                        top_down_bst_insertion(ks, start, mid - 1),
                        top_down_bst_insertion(ks, mid + 1, end)))

\* new_with_keys that builds from the slice as given, without sorting it
BstNewUnsorted(ks) ==
  IF ks = << >> THEN [root |-> None]
  ELSE [root |-> top_down_bst_insertion(ks, 0, Len(ks) - 1)]

\* BinarySearchTreeGroup::new_with_keys
BstNewWithKeys(ks) ==
  IF ks = << >> THEN [root |-> None]
  ELSE LET sorted_keys == Sort(ks)
       IN [root |-> top_down_bst_insertion(sorted_keys, 0, Len(sorted_keys) - 1)]

RECURSIVE insert_recursive(_, _)
insert_recursive(node, key) ==
  IF node = None THEN Some(TreeNode(key, None, None))
  ELSE LET n == Unwrap(node)
       IN IF key < n.key
          THEN Some([n EXCEPT !.left = insert_recursive(n.left, key)])
          ELSE Some([n EXCEPT !.right = insert_recursive(n.right, key)])

\* BinarySearchTreeGroup::insert
BstInsertKey(g, key) == [root |-> insert_recursive(g.root, key)]

RECURSIVE len_recursive(_)
len_recursive(node) ==
  IF node = None THEN 0
  ELSE 1 + len_recursive(Unwrap(node).left) + len_recursive(Unwrap(node).right)

\* BinarySearchTreeGroup::len
BstLen(g) == len_recursive(g.root)

RECURSIVE contains_recursive(_, _)
contains_recursive(node, key) ==
  IF node = None THEN FALSE
  ELSE LET n == Unwrap(node)
       IN IF key = n.key THEN TRUE
          ELSE IF key < n.key THEN contains_recursive(n.left, key)
          ELSE contains_recursive(n.right, key)

\* BinarySearchTreeGroup::contains
BstContains(g, key) == contains_recursive(g.root, key)

\* predecessor_recursive that forgets the node it passes on the way right
RECURSIVE predecessor_recursive_stale_best(_, _, _)
predecessor_recursive_stale_best(node, key, best) ==
  IF node = None THEN best
  ELSE LET n == Unwrap(node)
       IN IF n.key = key THEN Some(n.key)
          ELSE IF key < n.key THEN predecessor_recursive_stale_best(n.left, key, best)
          ELSE predecessor_recursive_stale_best(n.right, key, best)

RECURSIVE predecessor_recursive(_, _, _)
predecessor_recursive(node, key, best) ==
  IF node = None THEN best
  ELSE LET n == Unwrap(node)
       IN IF n.key = key THEN Some(n.key)
          ELSE IF key < n.key THEN predecessor_recursive(n.left, key, best)
          ELSE predecessor_recursive(n.right, key, Some(n.key))

\* BinarySearchTreeGroup::predecessor
BstPredecessor(g, key) == predecessor_recursive(g.root, key, None)

RECURSIVE successor_recursive(_, _, _)
successor_recursive(node, key, best) ==
  IF node = None THEN best
  ELSE LET n == Unwrap(node)
       IN IF n.key = key THEN Some(n.key)
          ELSE IF key < n.key THEN successor_recursive(n.left, key, Some(n.key))
          ELSE successor_recursive(n.right, key, best)

\* BinarySearchTreeGroup::successor
BstSuccessor(g, key) == successor_recursive(g.root, key, None)

\* find_node_mut followed by the assignment of set_infix_store
RECURSIVE set_store_recursive(_, _, _)
set_store_recursive(node, key, store) ==
  IF node = None THEN None
  ELSE LET n == Unwrap(node)
       IN IF key = n.key THEN Some([n EXCEPT !.infix_store = Some(store)])
          ELSE IF key < n.key THEN Some([n EXCEPT !.left = set_store_recursive(n.left, key, store)])
          ELSE Some([n EXCEPT !.right = set_store_recursive(n.right, key, store)])

\* BinarySearchTreeGroup::set_infix_store
BstSetInfixStore(g, key, store) == [root |-> set_store_recursive(g.root, key, store)]

RECURSIVE get_infix_store_recursive(_, _)
get_infix_store_recursive(node, key) ==
  IF node = None THEN None
  ELSE LET n == Unwrap(node)
       IN IF key = n.key THEN n.infix_store
          ELSE IF key < n.key THEN get_infix_store_recursive(n.left, key)
          ELSE get_infix_store_recursive(n.right, key)

\* BinarySearchTreeGroup::get_infix_store
BstGetInfixStore(g, key) == get_infix_store_recursive(g.root, key)

\* predecessor_store_recursive that does not carry the store of the node it
\* passes on the way right
RECURSIVE predecessor_store_recursive_no_carry(_, _, _)
predecessor_store_recursive_no_carry(node, key, best) ==
  IF node = None THEN best
  ELSE LET n == Unwrap(node)
       IN IF n.key = key THEN (IF IsSome(n.infix_store) THEN n.infix_store ELSE best)
          ELSE IF key < n.key THEN predecessor_store_recursive_no_carry(n.left, key, best)
          ELSE predecessor_store_recursive_no_carry(n.right, key, best)

\* predecessor_store_recursive that keeps the carried store when the node it
\* passes on the way right has none
RECURSIVE predecessor_store_recursive_keep_best(_, _, _)
predecessor_store_recursive_keep_best(node, key, best) ==
  IF node = None THEN best
  ELSE LET n == Unwrap(node)
       IN IF n.key = key THEN (IF IsSome(n.infix_store) THEN n.infix_store ELSE best)
          ELSE IF key < n.key THEN predecessor_store_recursive_keep_best(n.left, key, best)
          ELSE predecessor_store_recursive_keep_best(n.right, key,
                 IF IsSome(n.infix_store) THEN n.infix_store ELSE best)

RECURSIVE predecessor_store_recursive(_, _, _)
predecessor_store_recursive(node, key, best) ==
  IF node = None THEN best
  ELSE LET n == Unwrap(node)
       IN IF n.key = key THEN (IF IsSome(n.infix_store) THEN n.infix_store ELSE best)
          ELSE IF key < n.key THEN predecessor_store_recursive(n.left, key, best)
          ELSE predecessor_store_recursive(n.right, key, n.infix_store)

\* BinarySearchTreeGroup::predecessor_infix_store
BstPredecessorInfixStore(g, key) == predecessor_store_recursive(g.root, key, None)

RECURSIVE successor_store_recursive(_, _, _)
successor_store_recursive(node, key, best) ==
  IF node = None THEN best
  ELSE LET n == Unwrap(node)
       IN IF n.key = key THEN (IF IsSome(n.infix_store) THEN n.infix_store ELSE best)
          ELSE IF key < n.key THEN successor_store_recursive(n.left, key, n.infix_store)
          ELSE successor_store_recursive(n.right, key, best)

\* BinarySearchTreeGroup::successor_infix_store
BstSuccessorInfixStore(g, key) == successor_store_recursive(g.root, key, None)

\* the keys of a tree, whatever their place in it
RECURSIVE TreeKeys(_)
TreeKeys(node) ==
  IF node = None THEN {}
  ELSE {Unwrap(node).key} \cup TreeKeys(Unwrap(node).left) \cup TreeKeys(Unwrap(node).right)

(***************************************************************************)
(* Y-Fast trie.  A YFastTrie is its x_fast_trie.                           *)
(***************************************************************************)
\* YFastTrie::new
YFastNew(no_levels) == XFastNew(no_levels)

\* step 5 of new_with_keys: the group goes to the representative lookup finds
AttachGroup(t, boundary_key, group) ==
  LET rep_node == lookup(t, boundary_key)
  IN IF IsSome(rep_node) /\ Unwrap(rep_node) \in DOMAIN t.reps
     THEN [t EXCEPT !.reps[Unwrap(rep_node)].bst_group = Some(group)]
     ELSE t

\* the loop of new_with_keys over the chunks; chunk_start counts from 0
RECURSIVE BuildChunks(_, _, _, _)
BuildChunks(t, sorted_keys, bst_group_size, chunk_start) ==
  IF chunk_start >= Len(sorted_keys) THEN t
  ELSE LET chunk_end    == Min2(chunk_start + bst_group_size, Len(sorted_keys))
           chunk        == SubSeq(sorted_keys, chunk_start + 1, chunk_end)
           boundary_key == chunk[1]
           t3           == insert(t, boundary_key)
           t5           == AttachGroup(t3, boundary_key, BstNewWithKeys(chunk))
       IN BuildChunks(t5, sorted_keys, bst_group_size, chunk_start + bst_group_size)

\* new_with_keys that chunks the array as given, without sorting it
YFastNewUnsorted(ks, no_levels) ==
  IF ks = << >> THEN YFastNew(no_levels)
  ELSE BuildChunks(XFastNew(no_levels), Dedup(ks), Max2(no_levels, 8), 0)

\* YFastTrie::new_with_keys
YFastNewWithKeys(ks, no_levels) ==
  IF ks = << >> THEN YFastNew(no_levels)
  ELSE LET sorted_keys    == Dedup(Sort(ks))
           bst_group_size == Max2(no_levels, 8)
       IN BuildChunks(XFastNew(no_levels), sorted_keys, bst_group_size, 0)

\* YFastTrie::predecessor
YPredecessor(t, key) ==
  LET rep_node == predecessor(t, key)
  IN IF ~IsSome(rep_node) THEN None
     ELSE LET rep == t.reps[Unwrap(rep_node)]
          IN IF IsSome(rep.bst_group)
             THEN BstPredecessor(Unwrap(rep.bst_group), key)
             ELSE Some(rep.key)

\* successor that stops at the bucket of the predecessor boundary
YSuccessorSameBucket(t, key) ==
  LET rep_node == predecessor(t, key)
  IN IF IsSome(rep_node)
     THEN LET rep == t.reps[Unwrap(rep_node)]
          IN IF IsSome(rep.bst_group) THEN BstSuccessor(Unwrap(rep.bst_group), key) ELSE None
     ELSE IF IsSome(t.head_rep) THEN Some(t.reps[Unwrap(t.head_rep)].key) ELSE None

\* YFastTrie::successor
YSuccessor(t, key) ==
  LET rep_node == predecessor(t, key)
  IN IF IsSome(rep_node)
     THEN LET rep      == t.reps[Unwrap(rep_node)]
              in_group == IF IsSome(rep.bst_group)
                          THEN BstSuccessor(Unwrap(rep.bst_group), key)
                          ELSE None
              next_rep == Upgrade(t, rep.right)
          IN IF IsSome(in_group) THEN in_group
             ELSE IF IsSome(next_rep) THEN Some(t.reps[Unwrap(next_rep)].key)
             ELSE None
     ELSE IF IsSome(t.head_rep) THEN Some(t.reps[Unwrap(t.head_rep)].key) ELSE None

\* contains without the search of the predecessor boundary's group
YContainsLookupOnly(t, key) == IsSome(lookup(t, key))

\* YFastTrie::contains
YContains(t, key) ==
  IF IsSome(lookup(t, key)) THEN TRUE
  ELSE LET rep_node == predecessor(t, key)
       IN IF IsSome(rep_node) /\ IsSome(t.reps[Unwrap(rep_node)].bst_group)
          THEN BstContains(Unwrap(t.reps[Unwrap(rep_node)].bst_group), key)
          ELSE FALSE

\* YFastTrie::predecessor_infix_store
YPredecessorInfixStore(t, key) ==
  LET rep_node == predecessor(t, key)
  IN IF IsSome(rep_node) /\ IsSome(t.reps[Unwrap(rep_node)].bst_group)
     THEN BstPredecessorInfixStore(Unwrap(t.reps[Unwrap(rep_node)].bst_group), key)
     ELSE None

\* YFastTrie::successor_infix_store
YSuccessorInfixStore(t, key) ==
  LET rep_node == successor(t, key)
  IN IF IsSome(rep_node) /\ IsSome(t.reps[Unwrap(rep_node)].bst_group)
     THEN BstSuccessorInfixStore(Unwrap(t.reps[Unwrap(rep_node)].bst_group), key)
     ELSE None

\* YFastTrie::set_infix_store, which diva.rs calls and y_fast_trie.rs does not
\* define: the store goes to the node of `key` in the group of key's boundary
YSetInfixStore(t, key, store) ==
  LET rep_node == predecessor(t, key)
  IN IF IsSome(rep_node) /\ IsSome(t.reps[Unwrap(rep_node)].bst_group)
     THEN [t EXCEPT !.reps[Unwrap(rep_node)].bst_group =
             Some(BstSetInfixStore(Unwrap(@), key, store))]
     ELSE t

(***************************************************************************)
(* The Y-Fast specification: new_with_keys on a key array over             *)
(* [0, 2^YLevels), given ascending or descending with a repeated key.      *)
(***************************************************************************)
YKeys == 0..Min2(MaxYKey, 2 ^ YLevels - 1)

YQueries == 0..(2 ^ YLevels - 1)

YArrays ==
  UNION {{Ascending(S), Descending(S) \o (IF S = {} THEN << >> ELSE <<SetMin(S)>>)} : S \in SUBSET YKeys}

InitYFast ==
  /\ trie = YFastNew(YLevels)
  /\ inserted = {}
  /\ calls = 0
  /\ keys \in YArrays
  /\ bst = BstDefault
  /\ group_keys = {}
  /\ diva = << >>
  /\ input_infixes = << >>
  /\ built_store = None
  /\ rank_call = << >>
  /\ grade_call = << >>
  /\ pc = "yfast_input"

YBuild ==
  /\ pc = "yfast_input"
  /\ trie' = YFastNewWithKeys(keys, YLevels)
  /\ pc' = "yfast"
  /\ UNCHANGED <<inserted, calls, keys, bst, group_keys, diva, input_infixes, built_store, rank_call, grade_call>>

NextYFast == YBuild

SpecYFast == InitYFast /\ [][NextYFast]_vars

\* the sorted de-duplicated keys K of the array, and bucket_size = max(w, 8)
YSorted == Ascending(Elems(keys))

YBucketSize == Max2(YLevels, 8)

\* the predecessor a boundary's group yields for q, absent when the boundary
\* has no group
GroupPredecessor(t, rep_node, q) ==
  IF IsSome(t.reps[Unwrap(rep_node)].bst_group)
  THEN BstPredecessor(Unwrap(t.reps[Unwrap(rep_node)].bst_group), q)
  ELSE None

\* C25: whenever the X-Fast layer has a predecessor boundary b for q and the
\* group of b yields no predecessor (the empty group of a bucket an X-Fast
\* insert created), Y-Fast predecessor(q) is b and not absent; so on a trie
\* populated only through x_fast_trie.insert with distinct keys, predecessor(q)
\* is the largest inserted key <= q.
C25_YFastPredecessorFallback ==
  DistinctInserts =>
    \A q \in XKeys :
      LET rep_node == predecessor(trie, q)
      IN /\ (IsSome(rep_node) /\ GroupPredecessor(trie, rep_node, q) = None)
              => YPredecessor(trie, q) = Some(trie.reps[Unwrap(rep_node)].key)
         /\ YPredecessor(trie, q) = RefPred(inserted, q)

\* C7: for new_with_keys(S, w), contains(k) is true iff k is in S, for every k
\* in [0, 2^w).
C7_YFastContainsLaw ==
  pc = "yfast" => \A k \in YQueries : YContains(trie, k) <=> k \in Elems(keys)

\* two buckets, a key array that is not sorted, keys below the first boundary and
\* a non-boundary key in the second bucket
C7_Witness ==
  /\ pc = "yfast"
  /\ keys # Sort(keys)
  /\ Len(YSorted) >= YBucketSize + 2
  /\ YSorted[1] > 0
  /\ ~YContains(trie, 0)
  /\ lookup(trie, YSorted[YBucketSize + 2]) = None
  /\ YContains(trie, YSorted[YBucketSize + 2])

\* C8: for new_with_keys(S, w) and every q in [0, 2^w), predecessor(q) is
\* max{s in S : s <= q} and successor(q) is min{s in S : s >= q}, each absent
\* exactly when no such key exists.
C8_YFastPredSuccLaw ==
  pc = "yfast" =>
    \A q \in YQueries :
      /\ YPredecessor(trie, q) = RefPred(Elems(keys), q)
      /\ YSuccessor(trie, q) = RefSucc(Elems(keys), q)

\* a query whose successor is the next bucket's boundary, and a query below the
\* first boundary
C8_Witness ==
  /\ pc = "yfast"
  /\ Len(YSorted) > YBucketSize
  /\ \E q \in YQueries :
       /\ q > YSorted[YBucketSize]
       /\ q < YSorted[YBucketSize + 1]
       /\ YSuccessor(trie, q) = Some(YSorted[YBucketSize + 1])
       /\ YPredecessor(trie, q) = Some(YSorted[YBucketSize])
  /\ \E q \in YQueries :
       /\ q < YSorted[1]
       /\ YPredecessor(trie, q) = None
       /\ YSuccessor(trie, q) = Some(YSorted[1])

\* C9: after new_with_keys(S, w), with K the sorted de-duplicated keys, X-Fast
\* lookup(k) is present iff k = K[i] for an i that is a multiple of bucket_size,
\* and the group attached to boundary K[i] holds exactly the keys
\* K[i .. min(i + bucket_size, |K|)).
C9_YFastBoundaries ==
  pc = "yfast" =>
    /\ \A k \in YQueries :
         IsSome(lookup(trie, k)) <=>
           \E i \in 0..(Len(YSorted) - 1) : i % YBucketSize = 0 /\ YSorted[i + 1] = k
    /\ \A i \in 0..(Len(YSorted) - 1) :
         i % YBucketSize = 0 =>
           LET rep_node == lookup(trie, YSorted[i + 1])
               group    == trie.reps[Unwrap(rep_node)].bst_group
           IN /\ IsSome(group)
              /\ TreeKeys(Unwrap(group).root) =
                   {YSorted[j + 1] : j \in i..(Min2(i + YBucketSize, Len(YSorted)) - 1)}
              /\ BstLen(Unwrap(group)) = Min2(i + YBucketSize, Len(YSorted)) - i

\* two boundaries, the second group shorter than a bucket
C9_Witness ==
  /\ pc = "yfast"
  /\ keys # Sort(keys)
  /\ Len(YSorted) > YBucketSize + 1
  /\ Len(YSorted) < 2 * YBucketSize
  /\ IsSome(lookup(trie, YSorted[YBucketSize + 1]))
  /\ lookup(trie, YSorted[2]) = None

(***************************************************************************)
(* Bitmaps (bitmap.rs).  A u64 word is the set of its set bit positions,   *)
(* a bitmap a sequence of words, indexed from 0 in the source and from 1   *)
(* here.                                                                   *)
(***************************************************************************)
U64_BIT_SIZE == 64

\* the bits of a u64 value below 2^31
RECURSIVE BitsFrom(_, _)
BitsFrom(x, i) == IF x = 0 THEN {} ELSE (IF x % 2 = 1 THEN {i} ELSE {}) \cup BitsFrom(x \div 2, i + 1)

Bits(x) == BitsFrom(x, 0)

\* the value of a word whose bits all lie below 31
RECURSIVE WordValue(_)
WordValue(w) == IF w = {} THEN 0 ELSE 2 ^ SetMax(w) + WordValue(w \ {SetMax(w)})

\* w << n and w >> n on a 64-bit word
ShlWord(w, n) == {i + n : i \in w} \cap (0..(U64_BIT_SIZE - 1))

ShrWord(w, n) == {i - n : i \in {j \in w : j >= n}}

\* (1 << n) - 1
LowMask(n) == 0..(n - 1)

set_bit(data, pos) ==
  [data EXCEPT ![pos \div U64_BIT_SIZE + 1] = @ \cup {pos % U64_BIT_SIZE}]

get_bit(data, pos) == (pos % U64_BIT_SIZE) \in data[pos \div U64_BIT_SIZE + 1]

RECURSIVE CountOnes(_, _)
CountOnes(data, n) == IF n = 0 THEN 0 ELSE Cardinality(data[n]) + CountOnes(data, n - 1)

rank(data, pos) ==
  LET word_index == pos \div U64_BIT_SIZE
      bit_index  == pos % U64_BIT_SIZE
  IN CountOnes(data, word_index)
       + (IF bit_index > 0 THEN Cardinality(data[word_index + 1] \cap LowMask(bit_index)) ELSE 0)

rank_cached(data, pos, half_pos, cached_popcount) ==
  IF pos <= half_pos THEN rank(data, pos)
  ELSE LET word_offset == half_pos \div U64_BIT_SIZE
           remaining   == rank(SubSeq(data, word_offset + 1, Len(data)), pos - half_pos)
       IN cached_popcount + remaining

\* select_in_word: the position of the (rank+1)-th set bit of the word
select_in_word(word, r) ==
  LET hits == {i \in word : Cardinality({j \in word : j < i}) = r}
  IN IF hits = {} THEN None ELSE Some(SetMin(hits))

RECURSIVE SelectFrom(_, _, _, _)
SelectFrom(data, target, word_index, count) ==
  IF word_index >= Len(data) THEN None
  ELSE LET ones_in_word == Cardinality(data[word_index + 1])
       IN IF count + ones_in_word >= target
          THEN LET pos_in_word == select_in_word(data[word_index + 1], target - count - 1)
               IN IF IsSome(pos_in_word)
                  THEN Some(word_index * U64_BIT_SIZE + Unwrap(pos_in_word))
                  ELSE None
          ELSE SelectFrom(data, target, word_index + 1, count + ones_in_word)

select(data, r) == SelectFrom(data, r + 1, 0, 0)

(***************************************************************************)
(* Infix store (infix_store.rs).                                           *)
(***************************************************************************)
TARGET_SIZE == 1024

SIZE_GRADE_COUNT == 31

U64_BITS == 64

SCALED_SIZES ==
  <<463, 488, 514, 541, 570, 600, 632, 666, 701, 738, 777, 818, 861, 907, 1024, 1078, 1135, 1195,
    1258, 1325, 1395, 1469, 1547, 1629, 1715, 1806, 1901, 2002, 2108, 2219, 2326>>

\* the loop of choose_size_grade: the first grade whose size is >= num_elements as u16
RECURSIVE GradeFrom(_, _)
GradeFrom(n16, grade) ==
  IF grade >= SIZE_GRADE_COUNT THEN SIZE_GRADE_COUNT - 1
  ELSE IF SCALED_SIZES[grade + 1] >= n16 THEN grade
  ELSE GradeFrom(n16, grade + 1)

\* choose_size_grade that takes a grade one slot too small for the list
choose_size_grade_one_short(num_elements) == GradeFrom((num_elements - 1) % 65536, 0)

choose_size_grade(num_elements) == GradeFrom(num_elements % 65536, 0)

WordsFor(bits) == (bits + U64_BITS - 1) \div U64_BITS

\* the layout of data: first word (from 0) of occupieds, runends and slots
OccupiedsStart == 1

OccupiedsWords == WordsFor(TARGET_SIZE)

RunendsStart == OccupiedsStart + OccupiedsWords

RunendsWords(num_slots) == WordsFor(num_slots)

SlotsStart(num_slots) == RunendsStart + RunendsWords(num_slots)

SlotsWords(num_slots, remainder_size) == WordsFor(num_slots * remainder_size)

\* &data[start .. start + words] and writing such a slice back
Slice(data, start, words) == SubSeq(data, start + 1, start + words)

PutSlice(data, start, slice) ==
  SubSeq(data, 1, start) \o slice \o SubSeq(data, start + Len(slice) + 1, Len(data))

split_infix(infix, remainder_size) ==
  [quotient |-> Shr(infix, remainder_size), remainder |-> infix % (2 ^ remainder_size)]

\* write_slot that drops the bits of a slot that fall into the next word
write_slot_one_word(slots_slice, slot_index, remainder, remainder_size) ==
  LET bit_pos    == slot_index * remainder_size
      word_index == bit_pos \div U64_BITS
      bit_offset == bit_pos % U64_BITS
      mask       == ShlWord(LowMask(remainder_size), bit_offset)
      value      == ShlWord(Bits(remainder) \cap LowMask(remainder_size), bit_offset)
  IN [slots_slice EXCEPT ![word_index + 1] = (@ \ mask) \cup value]

write_slot(slots_slice, slot_index, remainder, remainder_size) ==
  LET bit_pos    == slot_index * remainder_size
      word_index == bit_pos \div U64_BITS
      bit_offset == bit_pos % U64_BITS
      mask       == ShlWord(LowMask(remainder_size), bit_offset)
      value      == ShlWord(Bits(remainder) \cap LowMask(remainder_size), bit_offset)
      s1         == [slots_slice EXCEPT ![word_index + 1] = (@ \ mask) \cup value]
  IN IF bit_offset + remainder_size > U64_BITS
     THEN LET overflow_bits == (bit_offset + remainder_size) - U64_BITS
              overflow_mask == LowMask(overflow_bits)
          IN [s1 EXCEPT ![word_index + 2] =
                (@ \ overflow_mask) \cup ShrWord(Bits(remainder), remainder_size - overflow_bits)]
     ELSE s1

\* word 0: [occupieds_popcount: 32 bits][runends_popcount: 32 bits]
compute_popcounts(data, num_slots) ==
  LET occupieds_popcount == rank(Slice(data, OccupiedsStart, OccupiedsWords), TARGET_SIZE \div 2)
      runends_popcount   == rank(Slice(data, RunendsStart, RunendsWords(num_slots)), num_slots \div 2)
  IN [data EXCEPT ![1] = ShlWord(Bits(occupieds_popcount), 32) \cup Bits(runends_popcount)]

\* one iteration of the loop of load_infixes_to_store, for the i-th infix
\* (from 1): slot_pos is i - 1 and prev_quotient the quotient of the infix before
LoadStep(data, infixes, remainder_size, num_slots, i) ==
  LET qr   == split_infix(infixes[i], remainder_size)
      slot_pos == i - 1
      prev_quotient == IF i = 1 THEN None ELSE Some(split_infix(infixes[i - 1], remainder_size).quotient)
      d1   == PutSlice(data, OccupiedsStart,
                       set_bit(Slice(data, OccupiedsStart, OccupiedsWords), qr.quotient))
      is_last_in_run == IsSome(prev_quotient) /\ Unwrap(prev_quotient) # qr.quotient
      d2   == IF is_last_in_run
              THEN PutSlice(d1, RunendsStart,
                            set_bit(Slice(d1, RunendsStart, RunendsWords(num_slots)), slot_pos - 1))
              ELSE d1
  IN PutSlice(d2, SlotsStart(num_slots),
              write_slot(Slice(d2, SlotsStart(num_slots), SlotsWords(num_slots, remainder_size)),
                         slot_pos, qr.remainder, remainder_size))

\* the loop of load_infixes_to_store: its iterations lo..hi, in order.  The
\* range is halved so that long lists evaluate in logarithmic depth; the
\* length test is always true and makes TLC evaluate the first half before
\* the second.
RECURSIVE LoadLoop(_, _, _, _, _, _)
LoadLoop(data, infixes, remainder_size, num_slots, lo, hi) ==
  IF lo > hi THEN data
  ELSE IF lo = hi THEN LoadStep(data, infixes, remainder_size, num_slots, lo)
  ELSE LET mid  == (lo + hi) \div 2
           left == LoadLoop(data, infixes, remainder_size, num_slots, lo, mid)
       IN IF Len(left) = Len(data)
          THEN LoadLoop(left, infixes, remainder_size, num_slots, mid + 1, hi)
          ELSE left

\* load_infixes_to_store that does not close the last run
load_infixes_open_last_run(data, infixes, remainder_size, num_slots) ==
  compute_popcounts(LoadLoop(data, infixes, remainder_size, num_slots, 1, Len(infixes)), num_slots)

load_infixes_to_store(data, infixes, remainder_size, num_slots) ==
  LET loaded   == LoadLoop(data, infixes, remainder_size, num_slots, 1, Len(infixes))
      slot_pos == Len(infixes)
      ended    == IF slot_pos > 0
                  THEN PutSlice(loaded, RunendsStart,
                                set_bit(Slice(loaded, RunendsStart, RunendsWords(num_slots)), slot_pos - 1))
                  ELSE loaded
  IN compute_popcounts(ended, num_slots)

\* InfixStore::new_with_infixes
new_with_infixes(infixes, remainder_size) ==
  LET size_grade  == choose_size_grade(Len(infixes))
      num_slots   == SCALED_SIZES[size_grade + 1]
      total_words == 1 + OccupiedsWords + RunendsWords(num_slots) + SlotsWords(num_slots, remainder_size)
      data        == [i \in 1..total_words |-> {}]
  IN IF infixes = << >>
     THEN [elem_count |-> 0, size_grade |-> size_grade, remainder_size |-> remainder_size, data |-> data]
     ELSE [elem_count     |-> Len(infixes) % 65536,
           size_grade     |-> size_grade,
           remainder_size |-> remainder_size,
           data           |-> load_infixes_to_store(data, infixes, remainder_size, num_slots)]

NumSlots(store) == SCALED_SIZES[store.size_grade + 1]

is_occupied(store, quotient) == get_bit(Slice(store.data, OccupiedsStart, OccupiedsWords), quotient)

is_runend(store, slot_pos) ==
  get_bit(Slice(store.data, RunendsStart, RunendsWords(NumSlots(store))), slot_pos)

read_slot(store, slot_index) ==
  LET slots_slice == Slice(store.data, SlotsStart(NumSlots(store)),
                           SlotsWords(NumSlots(store), store.remainder_size))
      bit_pos     == slot_index * store.remainder_size
      word_index  == bit_pos \div U64_BITS
      bit_offset  == bit_pos % U64_BITS
      low         == ShrWord(slots_slice[word_index + 1], bit_offset) \cap LowMask(store.remainder_size)
  IN IF bit_offset + store.remainder_size > U64_BITS
     THEN LET overflow_bits  == (bit_offset + store.remainder_size) - U64_BITS
              overflow_value == slots_slice[word_index + 2] \cap LowMask(overflow_bits)
          IN WordValue(low \cup ShlWord(overflow_value, store.remainder_size - overflow_bits))
     ELSE WordValue(low)

\* the index panics of set_bit and write_slot: data[word] with word >= data.len()
set_bit_panics(data_len, pos) == pos \div U64_BIT_SIZE >= data_len

write_slot_panics(slots_words, slot_index, remainder_size) ==
  LET bit_pos    == slot_index * remainder_size
      word_index == bit_pos \div U64_BITS
      bit_offset == bit_pos % U64_BITS
  IN \/ word_index >= slots_words
     \/ bit_offset + remainder_size > U64_BITS /\ word_index + 1 >= slots_words

\* new_with_infixes panics: some step of load_infixes_to_store indexes past
\* the occupieds, runends or slots slice
new_with_infixes_panics(infs, remainder_size) ==
  LET num_slots == SCALED_SIZES[choose_size_grade(Len(infs)) + 1]
      n         == Len(infs)
      q(i)      == split_infix(infs[i], remainder_size).quotient
  IN \E i \in 1..n :
       \/ set_bit_panics(OccupiedsWords, q(i))
       \/ i > 1 /\ q(i - 1) # q(i) /\ set_bit_panics(RunendsWords(num_slots), i - 2)
       \/ write_slot_panics(SlotsWords(num_slots, remainder_size), i - 1, remainder_size)
       \/ i = n /\ set_bit_panics(RunendsWords(num_slots), n - 1)

(***************************************************************************)
(* The infix store specification: new_with_infixes on an infix list and a  *)
(* remainder size.  The lists are all short lists over a few quotients and *)
(* remainders, and longer lists made of runs of equal quotients whose      *)
(* remainders cycle through a pattern.                                     *)
(***************************************************************************)
RemainderSizes == 1..16

\* remainders of remainder_size bits: zero, one, the top bit, all ones
Remainders(r) == {0, 1, 2 ^ (r - 1), 2 ^ r - 1}

RemPatterns(r) == {<<2 ^ r - 1>>, <<0, 2 ^ r - 1>>, <<2 ^ (r - 1), 1, 2 ^ r - 1>>}

Quotients == {0, 1, 1023}

ShortLists(r) == SeqsUpTo({qq * 2 ^ r + rem : qq \in Quotients, rem \in Remainders(r)}, MaxShortList)

\* n infixes: runs of run_len equal quotients from q0 upwards (downwards when
\* up is false), the remainders cycling through pat
RunList(r, n, q0, run_len, pat, up) ==
  [i \in 1..n |->
     (q0 + (IF up THEN (i - 1) \div run_len ELSE (n - i) \div run_len)) * 2 ^ r
       + pat[((i - 1) % Len(pat)) + 1]]

RunLists(r) ==
  {RunList(r, n, q0, run_len, pat, up) :
     n \in 0..MaxInfixes, q0 \in {0, 1020}, run_len \in 1..MaxRunLen, pat \in RemPatterns(r), up \in BOOLEAN}

\* lists as long as the smallest and the largest size grade have slots, and
\* one longer: zeros, then ones
LongLists ==
  {[i \in 1..n |-> IF 2 * i > n THEN 1 ELSE 0] :
     n \in {SCALED_SIZES[1], SCALED_SIZES[1] + 1,
            SCALED_SIZES[SIZE_GRADE_COUNT], SCALED_SIZES[SIZE_GRADE_COUNT] + 1}}

InitStore ==
  /\ trie = XFastNew(MaxLevels)
  /\ inserted = {}
  /\ calls = 0
  /\ keys = << >>
  /\ bst = BstDefault
  /\ group_keys = {}
  /\ diva \in [remainder_size : RemainderSizes]
  /\ input_infixes \in ShortLists(diva.remainder_size) \cup RunLists(diva.remainder_size)
                         \cup (IF diva.remainder_size = 1 THEN LongLists ELSE {})
  /\ built_store = None
  /\ rank_call = << >>
  /\ grade_call = << >>
  /\ pc = "store_input"

\* InfixStore::new_with_infixes(input_infixes, remainder_size)
StoreBuild ==
  /\ pc = "store_input"
  /\ IF new_with_infixes_panics(input_infixes, diva.remainder_size)
     THEN built_store' = None /\ pc' = "store_panic"
     ELSE built_store' = Some(new_with_infixes(input_infixes, diva.remainder_size)) /\ pc' = "store"
  /\ UNCHANGED <<trie, inserted, calls, keys, bst, group_keys, diva, input_infixes, rank_call, grade_call>>

NextStore == StoreBuild

SpecStore == InitStore /\ [][NextStore]_vars

\* C13: for every remainder_size in 1..16 and every infix list of n <= num_slots
\* elements, after new_with_infixes read_slot(i) is infix_i mod 2^remainder_size
\* for every i < n, in input order: also for slots that straddle a 64-bit word
\* boundary, and whatever was written to the slots after slot i.
C13_SlotRoundTrip ==
  (pc = "store" /\ Len(input_infixes) <= NumSlots(Unwrap(built_store))) =>
    \A i \in 1..Len(input_infixes) :
      read_slot(Unwrap(built_store), i - 1) = input_infixes[i] % (2 ^ diva.remainder_size)

\* a store whose last slot straddles a word boundary and holds a remainder
\* other than zero in both words, after a slot that holds zero
C13_Witness ==
  /\ pc = "store"
  /\ Len(input_infixes) >= 2
  /\ (((Len(input_infixes) - 1) * diva.remainder_size) % U64_BITS) + diva.remainder_size > U64_BITS
  /\ read_slot(Unwrap(built_store), Len(input_infixes) - 1) = 2 ^ diva.remainder_size - 1
  /\ read_slot(Unwrap(built_store), Len(input_infixes) - 2) = 0

\* the infix list is non-decreasing
SortedInfixes == \A i \in 1..(Len(input_infixes) - 1) : input_infixes[i] <= input_infixes[i + 1]

InputQuotient(i) == split_infix(input_infixes[i], diva.remainder_size).quotient

InputQuotients == {InputQuotient(i) : i \in 1..Len(input_infixes)}

\* the slots (from 0) of the j-th run (from 1), read off the runends bits
RunSlots(j) ==
  LET runends == Slice(Unwrap(built_store).data, RunendsStart, RunendsWords(NumSlots(Unwrap(built_store))))
      first   == IF j = 1 THEN 0 ELSE Unwrap(select(runends, j - 2)) + 1
      last    == Unwrap(select(runends, j - 1))
  IN first..last

\* the bit positions of the runends bitmap
RunendsBits(st) == 0..(RunendsWords(NumSlots(st)) * U64_BITS - 1)

\* C14: for a non-decreasing infix list with all quotients < 1024, after
\* new_with_infixes is_occupied(q) holds iff q is the quotient of some input
\* infix; is_runend(i) holds iff slot i is the last slot of a maximal run of
\* equal quotients; the runends bits, the occupieds bits and the distinct input
\* quotients are equally many; and the j-th run in slot order holds exactly the
\* remainders of the j-th smallest occupied quotient.
C14_RunIntegrity ==
  (pc = "store" /\ SortedInfixes) =>
    LET st      == Unwrap(built_store)
        n       == Len(input_infixes)
        sortedq == Ascending(InputQuotients)
    IN /\ \A qq \in 0..(TARGET_SIZE - 1) : is_occupied(st, qq) <=> qq \in InputQuotients
       /\ \A i \in RunendsBits(st) :
            is_runend(st, i) <=> (i < n /\ (i = n - 1 \/ InputQuotient(i + 1) # InputQuotient(i + 2)))
       /\ Cardinality({i \in RunendsBits(st) : is_runend(st, i)}) = Cardinality(InputQuotients)
       /\ Cardinality({qq \in 0..(TARGET_SIZE - 1) : is_occupied(st, qq)}) = Cardinality(InputQuotients)
       /\ \A j \in 1..Len(sortedq) :
            /\ \A i \in RunSlots(j) : i < n /\ InputQuotient(i + 1) = sortedq[j]
            /\ \A i \in 1..n : InputQuotient(i) = sortedq[j] =>
                  /\ (i - 1) \in RunSlots(j)
                  /\ read_slot(st, i - 1) = input_infixes[i] % (2 ^ diva.remainder_size)

\* a sorted list of five or more infixes with three or more quotients, one of
\* them with a run of two slots
C14_Witness ==
  /\ pc = "store"
  /\ SortedInfixes
  /\ Len(input_infixes) >= 5
  /\ Cardinality(InputQuotients) >= 3
  /\ \E i \in 1..(Len(input_infixes) - 1) :
       /\ InputQuotient(i) = InputQuotient(i + 1)
       /\ ~is_runend(Unwrap(built_store), i - 1)
       /\ is_runend(Unwrap(built_store), i)

\* C15: every InfixStore returned by new_with_infixes has elem_count = the
\* number of input infixes and elem_count <= num_slots = SCALED_SIZES[size_grade],
\* for an input list of any length.
C15_CapacityInvariant ==
  pc = "store" =>
    /\ Unwrap(built_store).elem_count = Len(input_infixes)
    /\ Unwrap(built_store).elem_count <= NumSlots(Unwrap(built_store))
    /\ NumSlots(Unwrap(built_store)) = SCALED_SIZES[Unwrap(built_store).size_grade + 1]

\* C15, amended: every InfixStore returned by new_with_infixes has elem_count =
\* the number of input infixes, and for an input list of at most
\* SCALED_SIZES[SIZE_GRADE_COUNT - 1] = 2326 infixes its grade is the smallest
\* one that holds the list, so elem_count <= num_slots; a longer list gets the
\* largest grade, and elem_count > num_slots.
C15_CapacityUpToLargestGrade ==
  pc = "store" =>
    LET st == Unwrap(built_store)
        n  == Len(input_infixes)
    IN /\ st.elem_count = n
       /\ NumSlots(st) = SCALED_SIZES[st.size_grade + 1]
       /\ n <= SCALED_SIZES[SIZE_GRADE_COUNT] =>
            /\ st.elem_count <= NumSlots(st)
            /\ \A g \in 0..(st.size_grade - 1) : SCALED_SIZES[g + 1] < n
       /\ n > SCALED_SIZES[SIZE_GRADE_COUNT] =>
            /\ st.size_grade = SIZE_GRADE_COUNT - 1
            /\ st.elem_count > NumSlots(st)

\* a list one longer than the smallest grade has slots: it gets the next grade
C15_Witness ==
  /\ pc = "store"
  /\ Len(input_infixes) = SCALED_SIZES[1] + 1
  /\ Unwrap(built_store).size_grade = 1
  /\ Unwrap(built_store).elem_count = SCALED_SIZES[1] + 1

(***************************************************************************)
(* The size-grade specification: choose_size_grade on an element count.    *)
(***************************************************************************)
\* element counts: the small ones, each entry of SCALED_SIZES and its two
\* neighbours, and counts at and above 2^16
GradeInputs ==
  (0..MaxSmallCount)
    \cup {SCALED_SIZES[g] + d : g \in 1..SIZE_GRADE_COUNT, d \in {-1, 0, 1}}
    \cup {65535, 65536, 65536 + 463, 65536 + 464, 65536 + 2326, 65536 + 2327, 131072, 2 ^ 20}

InitGrade ==
  /\ trie = XFastNew(MaxLevels)
  /\ inserted = {}
  /\ calls = 0
  /\ keys = << >>
  /\ bst = BstDefault
  /\ group_keys = {}
  /\ diva = << >>
  /\ input_infixes = << >>
  /\ built_store = None
  /\ rank_call = << >>
  /\ grade_call \in [num_elements : GradeInputs, size_grade : {None}]
  /\ pc = "grade_input"

\* InfixStore::choose_size_grade(num_elements)
GradeChoose ==
  /\ pc = "grade_input"
  /\ grade_call' = [grade_call EXCEPT !.size_grade = Some(choose_size_grade(grade_call.num_elements))]
  /\ pc' = "grade"
  /\ UNCHANGED <<trie, inserted, calls, keys, bst, group_keys, diva, input_infixes, built_store, rank_call>>

NextGrade == GradeChoose

SpecGrade == InitGrade /\ [][NextGrade]_vars

\* the smallest grade whose size holds n elements, the largest grade when none does
SmallestGrade(n) ==
  IF n > SCALED_SIZES[SIZE_GRADE_COUNT] THEN SIZE_GRADE_COUNT - 1
  ELSE SetMin({g \in 0..(SIZE_GRADE_COUNT - 1) : SCALED_SIZES[g + 1] >= n})

\* C27: choose_size_grade(n) is the smallest grade g with SCALED_SIZES[g] >= n
\* for every n <= 2326 (grade 0 for n = 0, grade 14 for n = 1024) and the
\* largest grade, 30, for every n > 2326, n >= 65536 included.
C27_SizeGradeSelection ==
  pc = "grade" =>
    /\ grade_call.size_grade = Some(SmallestGrade(grade_call.num_elements))
    /\ (grade_call.num_elements = 0 => grade_call.size_grade = Some(0))
    /\ (grade_call.num_elements = 1024 => grade_call.size_grade = Some(14))

\* the same for the counts below 2^16
C27_BelowU16 ==
  (pc = "grade" /\ grade_call.num_elements < 65536) =>
    grade_call.size_grade = Some(SmallestGrade(grade_call.num_elements))

\* a count above the largest size and below 2^16, given the largest grade
ClampedGradeReached ==
  /\ pc = "grade"
  /\ grade_call.num_elements > SCALED_SIZES[SIZE_GRADE_COUNT]
  /\ grade_call.num_elements < 65536
  /\ grade_call.size_grade = Some(SIZE_GRADE_COUNT - 1)

(***************************************************************************)
(* The cached-rank specification: the popcounts compute_popcounts stores   *)
(* in word 0 of a store's data, then rank_cached on the occupieds or the   *)
(* runends bitmap with the midpoint the popcount was taken at.             *)
(***************************************************************************)
\* bit positions around the start, the midpoint, the 64-bit word the midpoint
\* lies in, and the end of a bitmap of num_bits bits
MarkPositions(num_bits) ==
  LET half == num_bits \div 2
  IN {0, 63, U64_BIT_SIZE * (half \div U64_BIT_SIZE), half - 1, half, half + 1, num_bits - 1}

QueryPositions(num_bits) ==
  MarkPositions(num_bits)
    \cup {1, U64_BIT_SIZE, U64_BIT_SIZE * (((num_bits \div 2) \div U64_BIT_SIZE) + 1), num_bits}

\* the bitmap of `words` words whose set bits are the positions in S
BitmapOf(S, words) ==
  [w \in 1..words |-> {p % U64_BIT_SIZE : p \in {x \in S : x \div U64_BIT_SIZE = w - 1}}]

\* the data of a store of the grade before compute_popcounts: word 0 clear,
\* the occupieds and the runends bitmaps (the slots are not read)
RankData(size_grade, occupied_bits, runend_bits) ==
  <<{}>> \o BitmapOf(occupied_bits, OccupiedsWords)
        \o BitmapOf(runend_bits, RunendsWords(SCALED_SIZES[size_grade + 1]))

RankCalls ==
  {[kind |-> "runends", size_grade |-> g, data |-> RankData(g, {}, S), pos |-> 0, result |-> 0] :
     <<g, S>> \in UNION {{<<g, S>> : S \in {T \in SUBSET MarkPositions(SCALED_SIZES[g + 1]) :
                                              Cardinality(T) <= MaxBitmapOnes}} :
                          g \in 0..(SIZE_GRADE_COUNT - 1)}}
  \cup
  {[kind |-> "occupieds", size_grade |-> 0, data |-> RankData(0, S, {}), pos |-> 0, result |-> 0] :
     S \in {T \in SUBSET MarkPositions(TARGET_SIZE) : Cardinality(T) <= MaxBitmapOnes}}

\* the bitmap a call is about, its length in bits, the midpoint the caller
\* derives, and the popcount word 0 holds for it
RankBits(c) == IF c.kind = "occupieds" THEN TARGET_SIZE ELSE SCALED_SIZES[c.size_grade + 1]

RankSlice(c) ==
  IF c.kind = "occupieds"
  THEN Slice(c.data, OccupiedsStart, OccupiedsWords)
  ELSE Slice(c.data, RunendsStart, RunendsWords(SCALED_SIZES[c.size_grade + 1]))

RankHalf(c) == RankBits(c) \div 2

RankCachedPopcount(c) ==
  IF c.kind = "occupieds"
  THEN WordValue(ShrWord(c.data[1], 32))
  ELSE WordValue(c.data[1] \cap LowMask(32))

InitRank ==
  /\ trie = XFastNew(MaxLevels)
  /\ inserted = {}
  /\ calls = 0
  /\ keys = << >>
  /\ bst = BstDefault
  /\ group_keys = {}
  /\ diva = << >>
  /\ input_infixes = << >>
  /\ built_store = None
  /\ rank_call \in RankCalls
  /\ grade_call = << >>
  /\ pc = "rank_input"

\* InfixStore::compute_popcounts on the data
RankComputePopcounts ==
  /\ pc = "rank_input"
  /\ rank_call' = [rank_call EXCEPT !.data = compute_popcounts(@, SCALED_SIZES[rank_call.size_grade + 1])]
  /\ pc' = "rank_ready"
  /\ UNCHANGED <<trie, inserted, calls, keys, bst, group_keys, diva, input_infixes, built_store, grade_call>>

\* rank_cached(bitmap, p, half_pos, cached_popcount)
RankQuery(p) ==
  /\ pc = "rank_ready"
  /\ rank_call' = [rank_call EXCEPT
                     !.pos = p,
                     !.result = rank_cached(RankSlice(rank_call), p, RankHalf(rank_call),
                                            RankCachedPopcount(rank_call))]
  /\ pc' = "rank_done"
  /\ UNCHANGED <<trie, inserted, calls, keys, bst, group_keys, diva, input_infixes, built_store, grade_call>>

NextRank ==
  \/ RankComputePopcounts
  \/ \E p \in QueryPositions(RankBits(rank_call)) : RankQuery(p)

SpecRank == InitRank /\ [][NextRank]_vars

\* C23: for every size grade and every bitmap of num_slots = SCALED_SIZES[g]
\* bits, with half_pos = num_slots / 2 and the popcount compute_popcounts stored
\* in word 0, rank_cached(bitmap, p, half_pos, cached_popcount) is
\* rank(bitmap, p) for every p in [0, num_slots]; likewise for the 1024-bit
\* occupieds bitmap with half_pos = 512.
C23_RankCachedEqualsRank ==
  pc = "rank_done" => rank_call.result = rank(RankSlice(rank_call), rank_call.pos)

\* the same for the midpoints that are a multiple of 64: the occupieds bitmap
\* and the runends bitmap of the grade with 1024 slots
C23_AlignedMidpoints ==
  (pc = "rank_done" /\ RankHalf(rank_call) % U64_BIT_SIZE = 0)
    => rank_call.result = rank(RankSlice(rank_call), rank_call.pos)

\* a query in the second half of a bitmap with an aligned midpoint, set bits on
\* both sides of the midpoint
AlignedRankReached ==
  /\ pc = "rank_done"
  /\ RankHalf(rank_call) % U64_BIT_SIZE = 0
  /\ rank_call.pos > RankHalf(rank_call)
  /\ RankCachedPopcount(rank_call) >= 1
  /\ rank_call.result > RankCachedPopcount(rank_call)

(***************************************************************************)
(* The BST group specification: new_with_keys on any key array, then any   *)
(* insert calls.                                                           *)
(***************************************************************************)
BstKeys == 0..MaxBstKey

InitBst ==
  /\ trie = XFastNew(MaxLevels)
  /\ inserted = {}
  /\ calls = 0
  /\ keys \in SeqsUpTo(BstKeys, MaxBstLen)
  /\ bst = BstDefault
  /\ group_keys = {}
  /\ diva = << >>
  /\ input_infixes = << >>
  /\ built_store = None
  /\ rank_call = << >>
  /\ grade_call = << >>
  /\ pc = "bst_input"

BstBuild ==
  /\ pc = "bst_input"
  /\ bst' = BstNewWithKeys(keys)
  /\ group_keys' = Elems(keys)
  /\ pc' = "bst"
  /\ UNCHANGED <<trie, inserted, calls, keys, diva, input_infixes, built_store, rank_call, grade_call>>

BstInsert(k) ==
  /\ pc = "bst"
  /\ calls < MaxBstInserts
  /\ bst' = BstInsertKey(bst, k)
  /\ group_keys' = group_keys \cup {k}
  /\ calls' = calls + 1
  /\ UNCHANGED <<trie, inserted, keys, diva, pc, input_infixes, built_store, rank_call, grade_call>>

NextBst == BstBuild \/ \E k \in BstKeys : BstInsert(k)

SpecBst == InitBst /\ [][NextBst]_vars

\* C10: for a group built by new_with_keys(S), S in any order, and extended by
\* any insert calls, contains(k) is true iff k is in S or was inserted.
C10_BstContainsLaw ==
  pc = "bst" => \A k \in BstKeys : BstContains(bst, k) <=> k \in group_keys

\* an unsorted array with a repeated key, then an insert of a new key and of a
\* key already present
C10_Witness ==
  /\ pc = "bst"
  /\ Len(keys) >= 3
  /\ keys # Sort(keys)
  /\ Cardinality(Elems(keys)) < Len(keys)
  /\ calls = 2
  /\ BstLen(bst) = Len(keys) + 2
  /\ Cardinality(group_keys) = Cardinality(Elems(keys)) + 1
  /\ \E k \in BstKeys : ~BstContains(bst, k)

\* C11: for a group holding key set S (new_with_keys and/or insert),
\* predecessor(k) = max{s in S : s <= k} and successor(k) = min{s in S : s >= k}
\* for every k: exactly k on a tie, absent when no such element exists, and
\* absent for every k on the empty group.
C11_BstPredSuccLaw ==
  pc = "bst" =>
    \A k \in BstKeys :
      /\ BstPredecessor(bst, k) = RefPred(group_keys, k)
      /\ BstSuccessor(bst, k) = RefSucc(group_keys, k)
      /\ (k \in group_keys => BstPredecessor(bst, k) = Some(k) /\ BstSuccessor(bst, k) = Some(k))
      /\ (group_keys = {} => BstPredecessor(bst, k) = None /\ BstSuccessor(bst, k) = None)

\* a group built from an array and extended by an insert, with a query below
\* every key (strict successor only), a tie, and a query above every key
\* (strict predecessor only)
C11_Witness ==
  /\ pc = "bst"
  /\ Len(keys) >= 2
  /\ calls >= 1
  /\ Cardinality(group_keys) >= 2
  /\ \E k \in BstKeys : BstPredecessor(bst, k) = None /\ BstSuccessor(bst, k) # None
  /\ \E k \in BstKeys : BstSuccessor(bst, k) = None /\ BstPredecessor(bst, k) # None
  /\ \E k \in BstKeys : BstPredecessor(bst, k) = Some(k) /\ BstSuccessor(bst, k) = Some(k)

\* the keys of a tree in in-order: left subtree, node, right subtree
RECURSIVE InOrder(_)
InOrder(node) ==
  IF node = None THEN << >>
  ELSE InOrder(Unwrap(node).left) \o <<Unwrap(node).key>> \o InOrder(Unwrap(node).right)

\* C28: after new_with_keys(S), S possibly with repeats, and any insert calls,
\* a key possibly present already, no two nodes hold the same key: len() is
\* the number of distinct keys supplied and the in-order traversal is strictly
\* ascending.
C28_BstKeysUnique ==
  pc = "bst" =>
    /\ BstLen(bst) = Cardinality(group_keys)
    /\ \A i \in 1..(Len(InOrder(bst.root)) - 1) : InOrder(bst.root)[i] < InOrder(bst.root)[i + 1]

\* the same with repeats counted: len() is the length of the array plus the
\* number of insert calls, and the in-order traversal is ascending, equal keys
\* side by side
C28_BstKeepsRepeats ==
  pc = "bst" =>
    /\ BstLen(bst) = Len(keys) + calls
    /\ Elems(InOrder(bst.root)) = group_keys
    /\ \A i \in 1..(Len(InOrder(bst.root)) - 1) : InOrder(bst.root)[i] <= InOrder(bst.root)[i + 1]

\* a group built from distinct keys and extended by inserts of new keys
DistinctGroupReached ==
  /\ pc = "bst"
  /\ Len(keys) >= 2
  /\ calls = 2
  /\ BstLen(bst) = Cardinality(group_keys)

(***************************************************************************)
(* The BST group with stores: new_with_keys on any key array, then any     *)
(* set_infix_store calls.                                                  *)
(***************************************************************************)
\* the InfixStore a caller attaches at key k: a one-element store holding k,
\* so that stores attached at different keys differ
StoreAt(k) == new_with_infixes(<<k>>, 8)

InitBstStore ==
  /\ trie = XFastNew(MaxLevels)
  /\ inserted = {}
  /\ calls = 0
  /\ keys \in SeqsUpTo(BstKeys, MaxBstLen)
  /\ bst = BstDefault
  /\ group_keys = {}
  /\ diva = << >>
  /\ input_infixes = << >>
  /\ built_store = None
  /\ rank_call = << >>
  /\ grade_call = << >>
  /\ pc = "bst_store_input"

BstStoreBuild ==
  /\ pc = "bst_store_input"
  /\ bst' = BstNewWithKeys(keys)
  /\ group_keys' = Elems(keys)
  /\ pc' = "bst_store"
  /\ UNCHANGED <<trie, inserted, calls, keys, diva, input_infixes, built_store, rank_call, grade_call>>

\* set_infix_store(k, StoreAt(k)), for any key k (a key the group lacks is a no-op)
BstSetStore(k) ==
  /\ pc = "bst_store"
  /\ bst' = BstSetInfixStore(bst, k, StoreAt(k))
  /\ UNCHANGED <<trie, inserted, calls, keys, group_keys, diva, pc, input_infixes, built_store, rank_call, grade_call>>

NextBstStore == BstStoreBuild \/ \E k \in BstKeys : BstSetStore(k)

SpecBstStore == InitBstStore /\ [][NextBstStore]_vars

\* the array given to new_with_keys holds no key twice
DistinctKeys == Cardinality(Elems(keys)) = Len(keys)

\* every key of the group carries the store attached at it
AllStoresAttached == \A k \in group_keys : BstGetInfixStore(bst, k) = Some(StoreAt(k))

\* C12: for new_with_keys(S), S a set of keys in any order, with a distinct
\* store attached to every key of S through set_infix_store,
\* predecessor_infix_store(q) is the store attached at predecessor(q) for every
\* q (the key's own store on an exact hit) and absent when q is below every key.
C12_BstPredecessorStoreAll ==
  (pc = "bst_store" /\ DistinctKeys /\ AllStoresAttached) =>
    \A q \in BstKeys :
      LET p == RefPred(group_keys, q)
      IN BstPredecessorInfixStore(bst, q) = (IF p = None THEN None ELSE Some(StoreAt(Unwrap(p))))

\* keys given out of order, a store at each; one query is an exact hit,
\* one falls strictly after its predecessor, one is below every key
C12_Witness ==
  /\ pc = "bst_store"
  /\ DistinctKeys
  /\ Len(keys) >= 2
  /\ keys # Sort(keys)
  /\ AllStoresAttached
  /\ \E q \in BstKeys : BstPredecessorInfixStore(bst, q) = None
  /\ \E q \in BstKeys : q \in group_keys /\ BstPredecessorInfixStore(bst, q) = Some(StoreAt(q))
  /\ \E q \in BstKeys : q \notin group_keys /\ IsSome(BstPredecessorInfixStore(bst, q))

\* the keys smaller than q on the search path from node to the node of q
RECURSIVE SmallerOnPath(_, _)
SmallerOnPath(node, q) ==
  IF node = None THEN {}
  ELSE LET n == Unwrap(node)
       IN IF n.key = q THEN {}
          ELSE IF q < n.key THEN SmallerOnPath(n.left, q)
          ELSE {n.key} \cup SmallerOnPath(n.right, q)

\* what get_infix_store returns for the key o names, absent when o is
StoreOfKey(g, o) == IF o = None THEN None ELSE BstGetInfixStore(g, Unwrap(o))

\* C29: for any group and any subset of its keys that have a store attached,
\* predecessor_infix_store(q) is get_infix_store(predecessor(q)) for every q:
\* the store of the largest key <= q, absent when that key carries no store or
\* no key <= q exists, on an exact hit and otherwise.
C29_BstPredecessorStorePartial ==
  (pc = "bst_store" /\ DistinctKeys) =>
    \A q \in BstKeys :
      BstPredecessorInfixStore(bst, q) = StoreOfKey(bst, BstPredecessor(bst, q))

\* C29, amended: predecessor_infix_store(q) is get_infix_store(predecessor(q))
\* when q is not an exact hit, and when it is an exact hit whose node carries a
\* store; on an exact hit whose node carries no store it is the carried store,
\* that of the last node passed on a right descent (the largest smaller key on
\* the search path to q), absent when that node has none or there is none.
C29_BstPredecessorStoreCarried ==
  (pc = "bst_store" /\ DistinctKeys) =>
    \A q \in BstKeys :
      LET p     == BstPredecessor(bst, q)
          above == SmallerOnPath(bst.root, q)
      IN BstPredecessorInfixStore(bst, q) =
           (IF p = Some(q) /\ BstGetInfixStore(bst, q) = None
            THEN (IF above = {} THEN None ELSE BstGetInfixStore(bst, SetMax(above)))
            ELSE StoreOfKey(bst, p))

\* stores at a proper part of the keys: a query that is not an exact hit and
\* whose predecessor has no store while a smaller key has one, an exact hit
\* with its own store, and an exact hit without one that gets the carried store
C29_Witness ==
  /\ pc = "bst_store"
  /\ DistinctKeys
  /\ Len(keys) >= 2
  /\ \E q \in BstKeys \ group_keys :
       /\ IsSome(BstPredecessor(bst, q))
       /\ BstPredecessorInfixStore(bst, q) = None
       /\ \E k \in group_keys : IsSome(BstGetInfixStore(bst, k))
  /\ \E q \in group_keys : BstPredecessorInfixStore(bst, q) = Some(StoreAt(q))
  /\ \E q \in group_keys :
       /\ BstGetInfixStore(bst, q) = None
       /\ IsSome(BstPredecessorInfixStore(bst, q))

(***************************************************************************)
(* The Y-Fast trie with stores: new_with_keys on a sorted key array of one *)
(* bucket or of more than one, then a store attached at every key in the   *)
(* group of its bucket.                                                    *)
(***************************************************************************)
YStoreArrays ==
  {Ascending(S) : S \in {T \in SUBSET YKeys : Cardinality(T) <= 2 \/ Cardinality(T) > YBucketSize}}

\* StoreAt(k) attached at every key k of ks from the i-th on, each in the group
\* of the boundary of its bucket
RECURSIVE AttachStores(_, _, _)
AttachStores(t, ks, i) ==
  IF i > Len(ks) THEN t
  ELSE AttachStores(YSetInfixStore(t, ks[i], StoreAt(ks[i])), ks, i + 1)

InitYStore ==
  /\ trie = YFastNew(YLevels)
  /\ inserted = {}
  /\ calls = 0
  /\ keys \in YStoreArrays
  /\ bst = BstDefault
  /\ group_keys = {}
  /\ diva = << >>
  /\ input_infixes = << >>
  /\ built_store = None
  /\ rank_call = << >>
  /\ grade_call = << >>
  /\ pc = "ystore_input"

YStoreBuild ==
  /\ pc = "ystore_input"
  /\ trie' = YFastNewWithKeys(keys, YLevels)
  /\ pc' = "ystore_built"
  /\ UNCHANGED <<inserted, calls, keys, bst, group_keys, diva, input_infixes, built_store, rank_call, grade_call>>

YAttachStores ==
  /\ pc = "ystore_built"
  /\ trie' = AttachStores(trie, YSorted, 1)
  /\ pc' = "ystore"
  /\ UNCHANGED <<inserted, calls, keys, bst, group_keys, diva, input_infixes, built_store, rank_call, grade_call>>

NextYStore == YStoreBuild \/ YAttachStores

SpecYStore == InitYStore /\ [][NextYStore]_vars

\* the store attached at the key o names, absent when o is
StoreAtKey(o) == IF o = None THEN None ELSE Some(StoreAt(Unwrap(o)))

\* C24: for a bulk-built Y-Fast trie in which every key has a store attached in
\* the group of its bucket, successor_infix_store(q) is the store attached at
\* the key successor(q), and absent iff successor(q) is absent, for every q:
\* also for q strictly inside a bucket whose successor lies in that bucket, and
\* for q above the last boundary and not above the last key.
C24_YFastSuccessorStore ==
  pc = "ystore" =>
    \A q \in YQueries : YSuccessorInfixStore(trie, q) = StoreAtKey(YSuccessor(trie, q))

\* the same for the queries whose successor is a boundary key
C24_SuccessorIsBoundary ==
  pc = "ystore" =>
    \A q \in YQueries :
      (IsSome(YSuccessor(trie, q)) /\ IsSome(lookup(trie, Unwrap(YSuccessor(trie, q)))))
        => YSuccessorInfixStore(trie, q) = StoreAtKey(YSuccessor(trie, q))

\* two buckets with a store at every key; a query between the buckets, whose
\* successor is the second boundary
BoundarySuccessorReached ==
  /\ pc = "ystore"
  /\ Len(YSorted) > YBucketSize
  /\ \A k \in Elems(keys) : YPredecessorInfixStore(trie, k) = Some(StoreAt(k))
  /\ \E q \in YQueries \ Elems(keys) :
       /\ q > YSorted[1]
       /\ YSuccessor(trie, q) = Some(YSorted[YBucketSize + 1])
       /\ YSuccessorInfixStore(trie, q) = Some(StoreAt(YSorted[YBucketSize + 1]))

(***************************************************************************)
(* Diva builder (diva.rs, utils.rs).                                       *)
(***************************************************************************)
BASE_IMPLICIT_SIZE == 10

NO_LEVELS == 64

RECURSIVE Xor(_, _)
Xor(a, b) ==
  IF a = 0 /\ b = 0 THEN 0
  ELSE (IF a % 2 = b % 2 THEN 0 ELSE 1) + 2 * Xor(a \div 2, b \div 2)

\* u64::leading_zeros
leading_zeros(x) == IF x = 0 THEN 64 ELSE 63 - SetMax(Bits(x))

longest_common_prefix_length(key1, key2) == leading_zeros(Xor(key1, key2))

\* f64 -> u8 `as` cast of an integral value: saturating
AsU8(x) == Min2(Max2(x, 0), 255)

\* choose_remainder_size; fpr stands for the value of (1.0 - fpr.log2()).ceil()
choose_remainder_size(target_size, fpr) == Min2(Max2(AsU8(fpr), 4), 16)

RECURSIVE RedundantFrom(_, _, _)
RedundantFrom(key_1, key_2, bit_pos) ==
  IF bit_pos >= 64 THEN 0
  ELSE LET shift == 63 - bit_pos
       IN IF Shr(key_1, shift) % 2 = 0 /\ Shr(key_2, shift) % 2 = 1
          THEN 1 + RedundantFrom(key_1, key_2, bit_pos + 1)
          ELSE 0

compute_redundant_bits(key_1, key_2, shared_prefix_len) ==
  IF shared_prefix_len >= 63 THEN 0 ELSE RedundantFrom(key_1, key_2, shared_prefix_len + 1) % 256

\* returns (shared_prefix_len, redundant_bits, quotient_bits)
get_shared_ignore_implicit_size(key_1, key_2, use_redundant_bits) ==
  LET shared         == longest_common_prefix_length(key_1, key_2) % 256
      redundant_bits == IF use_redundant_bits THEN compute_redundant_bits(key_1, key_2, shared) ELSE 0
      bits_used      == shared + 1 + redundant_bits
      remaining_bits == 64 - bits_used
  IN IF bits_used >= 64 THEN <<shared, redundant_bits, 0>>
     ELSE IF remaining_bits < BASE_IMPLICIT_SIZE THEN <<shared, redundant_bits, remaining_bits>>
     ELSE <<shared, redundant_bits, BASE_IMPLICIT_SIZE>>

extract_partial_key(key, shared_prefix_len, redundant_bits, quotient_bits, remainder_bits, msb) ==
  LET start_bit       == shared_prefix_len + 1 + redundant_bits
      remaining_bits  == 64 - start_bit
      bits_to_extract == Min2(quotient_bits + remainder_bits, remaining_bits)
      shift_amount    == 64 - start_bit - bits_to_extract
      extracted       == Shr(key, shift_amount) % (2 ^ bits_to_extract)
  IN IF start_bit >= 64 THEN msb
     ELSE IF bits_to_extract = 0 THEN msb
     ELSE msb * (2 ^ (quotient_bits + remainder_bits)) + extracted

\* get_msb that reads the first differing bit from its second argument
get_msb_of_second(key_1, key_2) ==
  LET shared == longest_common_prefix_length(key_1, key_2)
  IN IF shared >= 64 THEN 0 ELSE Shr(key_2, 63 - shared) % 2

get_msb(key_1, key_2) ==
  LET shared == longest_common_prefix_length(key_1, key_2)
  IN IF shared >= 64 THEN 0 ELSE Shr(key_1, 63 - shared) % 2

\* step_by that skips target_size keys between two samples
StepByOneMore(sorted_keys, target_size) ==
  [n \in 1..((Len(sorted_keys) + target_size) \div (target_size + 1)) |-> sorted_keys[(n - 1) * (target_size + 1) + 1]]

\* sorted_keys.iter().step_by(target_size)
StepBy(sorted_keys, target_size) ==
  [n \in 1..((Len(sorted_keys) + target_size - 1) \div target_size) |-> sorted_keys[(n - 1) * target_size + 1]]

\* the infix the builder extracts from key between the boundaries predecessor
\* and successor
InfixOf(key, pred, succ, remainder_size) ==
  LET layout == get_shared_ignore_implicit_size(pred, succ, FALSE)
  IN extract_partial_key(key, layout[1], layout[2], layout[3], remainder_size, get_msb(pred, key))

\* the intermediate keys of pair i (counted from 0): sorted_keys[start_idx..end_idx]
PairKeys(sorted_keys, target_size, i) ==
  LET start_idx == i * target_size + 1
      end_idx   == Min2((i + 1) * target_size, Len(sorted_keys))
  IN [n \in 1..Max2(end_idx - start_idx, 0) |-> sorted_keys[start_idx + n]]

\* the infixes new_with_keys collects for pair i, in the order it pushes them
PairInfixes(sorted_keys, sampled_keys, target_size, remainder_size, i) ==
  LET pair_keys == PairKeys(sorted_keys, target_size, i)
  IN [n \in 1..Len(pair_keys) |->
        InfixOf(pair_keys[n], sampled_keys[i + 1], sampled_keys[i + 2], remainder_size)]

\* the pair loop of new_with_keys, from pair i (counted from 0) on
RECURSIVE PairLoop(_, _, _, _, _, _)
PairLoop(t, sorted_keys, sampled_keys, target_size, remainder_size, i) ==
  IF i >= Max2(Len(sampled_keys) - 1, 0) THEN t
  ELSE LET pred      == sampled_keys[i + 1]
           succ      == sampled_keys[i + 2]
           infixes   == PairInfixes(sorted_keys, sampled_keys, target_size, remainder_size, i)
           t1        == IF infixes # << >>
                        THEN YSetInfixStore(t, pred, new_with_infixes(infixes, remainder_size))
                        ELSE t
       IN PairLoop(t1, sorted_keys, sampled_keys, target_size, remainder_size, i + 1)

\* Diva::new_with_keys: the y_fast_trie of the Diva it returns
DivaNewWithKeys(ks, target_size, remainder_size) ==
  LET sorted_keys  == Dedup(Sort(ks))
      sampled_keys == StepBy(sorted_keys, target_size)
      y_fast_trie  == YFastNewWithKeys(sampled_keys, NO_LEVELS)
  IN PairLoop(y_fast_trie, sorted_keys, sampled_keys, target_size, remainder_size, 0)

(***************************************************************************)
(* The membership composition on a Diva (spec 4.5 and 4.6; the crate has   *)
(* no query of its own).                                                   *)
(***************************************************************************)
RECURSIVE RunStart(_, _)
RunStart(store, p) ==
  IF p = 0 THEN 0 ELSE IF is_runend(store, p - 1) THEN p ELSE RunStart(store, p - 1)

\* probe of an infix store for the infix (quotient, remainder)
InfixProbe(store, quotient, remainder) ==
  IF ~is_occupied(store, quotient) THEN FALSE
  ELSE LET occupieds  == Slice(store.data, OccupiedsStart, OccupiedsWords)
           runends    == Slice(store.data, RunendsStart, RunendsWords(NumSlots(store)))
           i          == rank(occupieds, quotient + 1) - 1
           runend_pos == select(runends, i)
       IN IF ~IsSome(runend_pos) THEN FALSE
          ELSE \E slot \in RunStart(store, Unwrap(runend_pos))..Unwrap(runend_pos) :
                 read_slot(store, slot) = remainder

\* "maybe present" for x on the Diva whose y_fast_trie is t
DivaMaybeContains(t, remainder_size, x) ==
  LET b_i    == YPredecessor(t, x)
      b_next == YSuccessor(t, x)
      store  == YPredecessorInfixStore(t, x)
  IN IF ~IsSome(b_i) THEN FALSE
     ELSE IF Unwrap(b_i) = x THEN TRUE
     ELSE IF ~IsSome(b_next) \/ ~IsSome(store) THEN FALSE
     ELSE LET qr == split_infix(InfixOf(x, Unwrap(b_i), Unwrap(b_next), remainder_size), remainder_size)
          IN InfixProbe(Unwrap(store), qr.quotient, qr.remainder)

(***************************************************************************)
(* The Diva specification: new_with_keys on a key array, a target_size     *)
(* and an fpr.                                                             *)
(***************************************************************************)
DKeys == 0..MaxDKey

\* keys that differ in their high bits, so that q + r bits remain after the
\* first differing bit of a pair
DWideKeys ==
  {2 ^ 28 + 2 ^ 12 + 5,
   2 ^ 29 + 2 ^ 27,
   2 ^ 29 + 2 ^ 28 + 2 ^ 20 + 2 ^ 4 + 1,
   2 ^ 30 + 7,
   2 ^ 30 + 2 ^ 29 + 2 ^ 15}

DAllKeys == DKeys \cup DWideKeys

DArrays ==
  UNION {{Ascending(S), Descending(S) \o (IF S = {} THEN << >> ELSE <<SetMin(S)>>)} : S \in SUBSET DKeys}
    \cup {Ascending(S) : S \in SUBSET DWideKeys}

\* (1.0 - fpr.log2()).ceil() for fpr = 0.5, 0.01 and 2^-20
DFprs == {2, 8, 21}

InitDiva ==
  /\ trie = YFastNew(NO_LEVELS)
  /\ inserted = {}
  /\ calls = 0
  /\ keys \in DArrays
  /\ bst = BstDefault
  /\ group_keys = {}
  /\ diva \in [target_size : 1..MaxTargetSize, fpr : DFprs, remainder_size : {0}]
  /\ input_infixes = << >>
  /\ built_store = None
  /\ rank_call = << >>
  /\ grade_call = << >>
  /\ pc = "diva_input"

DivaBuild ==
  /\ pc = "diva_input"
  /\ LET remainder_size == choose_remainder_size(diva.target_size, diva.fpr)
     IN /\ trie' = DivaNewWithKeys(keys, diva.target_size, remainder_size)
        /\ diva' = [diva EXCEPT !.remainder_size = remainder_size]
  /\ pc' = "diva"
  /\ UNCHANGED <<inserted, calls, keys, bst, group_keys, input_infixes, built_store, rank_call, grade_call>>

NextDiva == DivaBuild

SpecDiva == InitDiva /\ [][NextDiva]_vars

\* the keys the groups of a Y-Fast trie hold
YKeysHeld(t) ==
  UNION {TreeKeys(Unwrap(t.reps[id].bst_group).root) : id \in {x \in DOMAIN t.reps : IsSome(t.reps[x].bst_group)}}

\* YFastTrie::len (sample_count), which the tests of diva.rs call and
\* y_fast_trie.rs does not define: the number of keys in the groups
RECURSIVE SumGroupLens(_, _)
SumGroupLens(t, ids) ==
  IF ids = {} THEN 0
  ELSE LET id == CHOOSE x \in ids : TRUE
       IN (IF IsSome(t.reps[id].bst_group) THEN BstLen(Unwrap(t.reps[id].bst_group)) ELSE 0)
            + SumGroupLens(t, ids \ {id})

YLen(t) == SumGroupLens(t, DOMAIN t.reps)

\* K: the sorted de-duplicated keys; the boundaries K[0], K[t], K[2t], ...
DSorted == Ascending(Elems(keys))

DBoundaries == {DSorted[i] : i \in {j \in 1..Len(DSorted) : (j - 1) % diva.target_size = 0}}

\* C16: for Diva::new_with_keys(keys, t, fpr) with any key array (unsorted,
\* with duplicates) and t >= 1, the Y-Fast trie holds exactly the keys K[0],
\* K[t], K[2t], ... of the sorted de-duplicated keys K and nothing else, so its
\* key count is ceil(|K| / t), and 1 when 0 < |K| <= t.
C16_DivaSampling ==
  pc = "diva" =>
    /\ YKeysHeld(trie) = DBoundaries
    /\ \A k \in DAllKeys : YContains(trie, k) <=> k \in DBoundaries
    /\ YLen(trie) = (Len(DSorted) + diva.target_size - 1) \div diva.target_size
    /\ (Len(DSorted) > 0 /\ Len(DSorted) <= diva.target_size => YLen(trie) = 1)

\* an unsorted array with a repeated key, five or more distinct keys sampled
\* every second key: three boundaries, the keys between them not held
C16_Witness ==
  /\ pc = "diva"
  /\ keys # Sort(keys)
  /\ Len(keys) > Len(DSorted)
  /\ Len(DSorted) >= 5
  /\ diva.target_size = 2
  /\ YLen(trie) = 3
  /\ ~YContains(trie, DSorted[2])
  /\ YContains(trie, DSorted[3])

\* the sampled boundaries of K, and the number of boundary pairs
DSampled == StepBy(DSorted, diva.target_size)

DPairs == 0..(Len(DSampled) - 2)

\* the infixes and the intermediate keys of pair i, as the builder computed them
DInfixes(i) == PairInfixes(DSorted, DSampled, diva.target_size, diva.remainder_size, i)

DPairKeys(i) == PairKeys(DSorted, diva.target_size, i)

\* the layout of pair i: shared_prefix_len, quotient_bits, and the number of
\* bits of a key after the first differing bit
DShared(i) == leading_zeros(Xor(DSampled[i + 1], DSampled[i + 2]))

DQuotientBits(i) == get_shared_ignore_implicit_size(DSampled[i + 1], DSampled[i + 2], FALSE)[3]

DBitsAfter(i) == 63 - DShared(i)

\* C17: for every consecutive boundary pair (b_i, b_{i+1}) of any sorted key
\* set, the list of infixes the builder extracts from the intermediate keys, in
\* ascending key order, and hands to InfixStore::new_with_infixes is
\* non-decreasing.
C17_DivaInfixOrder ==
  pc = "diva" =>
    \A i \in DPairs :
      \A n \in 1..(Len(DInfixes(i)) - 1) : DInfixes(i)[n] <= DInfixes(i)[n + 1]

\* C18: for every intermediate key k with b_i < k < b_{i+1}, the bit at position
\* (quotient_bits + remainder_bits) of k's infix is bit (63 - shared_prefix_len)
\* of k, with shared_prefix_len = leading_zeros(b_i XOR b_{i+1}): 1 for the keys
\* that agree with b_{i+1} on the first differing bit, 0 for those that agree
\* with b_i.
C18_DivaInfixMsb ==
  pc = "diva" =>
    \A i \in DPairs :
      \A n \in 1..Len(DInfixes(i)) :
        Shr(DInfixes(i)[n], DQuotientBits(i) + diva.remainder_size) % 2
          = Shr(DPairKeys(i)[n], 63 - DShared(i)) % 2

\* the width-bit field of key that starts right after bit (63 - shared) of it,
\* padded with zeros when the key ends before the field does
FieldAfter(key, bits_after, width) ==
  IF bits_after >= width
  THEN Shr(key % (2 ^ bits_after), bits_after - width)
  ELSE (key % (2 ^ bits_after)) * 2 ^ (width - bits_after)

\* C19: for every boundary pair and intermediate key k, with s, q and r as the
\* builder chose them, the infix is (msb << (q + r)) | E with E the (q + r)-bit
\* field of k at bit offsets [s + 1, s + 1 + q + r) from the most significant
\* bit, so that infix >> r ends in the q bits of k right after the first
\* differing bit and infix mod 2^r is the r bits after those: also when fewer
\* than q + r bits of k remain after offset s + 1.
C19_DivaExtractionWidth ==
  pc = "diva" =>
    \A i \in DPairs :
      \A n \in 1..Len(DInfixes(i)) :
        LET k     == DPairKeys(i)[n]
            q     == DQuotientBits(i)
            r     == diva.remainder_size
            msb   == get_msb(DSampled[i + 1], k)
            split == split_infix(DInfixes(i)[n], r)
        IN /\ DInfixes(i)[n] = msb * 2 ^ (q + r) + FieldAfter(k, DBitsAfter(i), q + r)
           /\ split.quotient % (2 ^ q) = FieldAfter(k, DBitsAfter(i), q)
           /\ split.remainder = FieldAfter(k, DBitsAfter(i), q + r) % (2 ^ r)

\* the same for the pairs whose keys have q + r bits or more after offset s + 1
C19_FullWidthPairs ==
  pc = "diva" =>
    \A i \in DPairs :
      \A n \in 1..Len(DInfixes(i)) :
        LET k     == DPairKeys(i)[n]
            q     == DQuotientBits(i)
            r     == diva.remainder_size
            msb   == get_msb(DSampled[i + 1], k)
            split == split_infix(DInfixes(i)[n], r)
        IN DBitsAfter(i) >= q + r =>
             /\ DInfixes(i)[n] = msb * 2 ^ (q + r) + FieldAfter(k, DBitsAfter(i), q + r)
             /\ split.quotient % (2 ^ q) = FieldAfter(k, DBitsAfter(i), q)
             /\ split.remainder = FieldAfter(k, DBitsAfter(i), q + r) % (2 ^ r)

\* a pair with q + r bits after the first differing bit and an intermediate key
FullWidthPairReached ==
  /\ pc = "diva"
  /\ \E i \in DPairs :
       /\ Len(DInfixes(i)) >= 1
       /\ DQuotientBits(i) = BASE_IMPLICIT_SIZE
       /\ DBitsAfter(i) >= DQuotientBits(i) + diva.remainder_size

\* the Infix Store attached at boundary b of the built trie
DStoreAt(b) ==
  LET rep_node == predecessor(trie, b)
  IN IF IsSome(rep_node) /\ IsSome(trie.reps[Unwrap(rep_node)].bst_group)
     THEN BstGetInfixStore(Unwrap(trie.reps[Unwrap(rep_node)].bst_group), b)
     ELSE None

\* the sum of elem_count over the stores attached at the first n boundaries
RECURSIVE DStoredCount(_)
DStoredCount(n) ==
  IF n = 0 THEN 0
  ELSE (IF IsSome(DStoreAt(DSampled[n])) THEN Unwrap(DStoreAt(DSampled[n])).elem_count ELSE 0)
         + DStoredCount(n - 1)

\* C22: for Diva::new_with_keys(K, t, fpr), every key of the sorted
\* de-duplicated input that is not a sampled boundary has one infix in the
\* Infix Store attached to its predecessor boundary: that store exists, and the
\* number of boundaries plus the sum of elem_count over the attached stores is
\* |K|, the keys after the last sampled boundary included.
C22_DivaCoversAllKeys ==
  pc = "diva" =>
    /\ Len(DSampled) + DStoredCount(Len(DSampled)) = Len(DSorted)
    /\ \A j \in 1..Len(DSorted) :
         DSorted[j] \notin DBoundaries
           => IsSome(DStoreAt(DSampled[((j - 1) \div diva.target_size) + 1]))

\* the same for the keys up to the last sampled boundary: the stores hold one
\* infix for each key between two boundaries and none for the keys after the
\* last one
C22_UpToLastBoundary ==
  pc = "diva" =>
    /\ Len(DSampled) + DStoredCount(Len(DSampled))
         = (IF Len(DSampled) = 0 THEN 0 ELSE (Len(DSampled) - 1) * diva.target_size + 1)
    /\ \A i \in DPairs :
         diva.target_size >= 2
           => /\ IsSome(DStoreAt(DSampled[i + 1]))
              /\ Unwrap(DStoreAt(DSampled[i + 1])).elem_count = diva.target_size - 1
    /\ Len(DSampled) >= 1 => DStoreAt(DSampled[Len(DSampled)]) = None

\* three boundaries with stores at the first two, and keys after the last one
TailKeysReached ==
  /\ pc = "diva"
  /\ diva.target_size >= 2
  /\ Len(DSampled) = 3
  /\ Len(DSorted) > 2 * diva.target_size + 1

\* C30: for every key set, target_size and fpr, every infix the builder passes
\* to InfixStore::new_with_infixes has (infix >> remainder_size) < TARGET_SIZE,
\* so set_bit on the 1024-bit occupieds slice is in bounds and construction does
\* not panic on the quotient index.
C30_DivaQuotientInBounds ==
  pc = "diva" =>
    \A i \in DPairs :
      \A n \in 1..Len(DInfixes(i)) :
        LET quotient == split_infix(DInfixes(i)[n], diva.remainder_size).quotient
        IN /\ Shr(DInfixes(i)[n], diva.remainder_size) < TARGET_SIZE
           /\ quotient < TARGET_SIZE
           /\ ~set_bit_panics(OccupiedsWords, quotient)

\* a pair with the full quotient width and a key whose quotient lies in the
\* upper half of the occupieds bitmap, beside a pair of the same build or
\* another key with a quotient in the lower half
C30_Witness ==
  /\ pc = "diva"
  /\ \E i \in DPairs :
       /\ DQuotientBits(i) = BASE_IMPLICIT_SIZE
       /\ DBitsAfter(i) >= DQuotientBits(i) + diva.remainder_size
       /\ \E n \in 1..Len(DInfixes(i)) :
            split_infix(DInfixes(i)[n], diva.remainder_size).quotient >= TARGET_SIZE \div 2
       /\ \E n \in 1..Len(DInfixes(i)) :
            Shr(DPairKeys(i)[n], 63 - DShared(i)) % 2 = 1

\* C1: for new_with_keys(K, target_size, fpr), target_size >= 1, every key of K
\* is reported "maybe present" by the membership composition.
C1_DivaNoFalseNegative ==
  pc = "diva" => \A x \in Elems(keys) : DivaMaybeContains(trie, diva.remainder_size, x)

====
